---- MODULE Spec2Model ----
(***************************************************************************)
(* Model of the reone script virtual machine                               *)
(* (src/src/libs/script/virtualmachine.cpp), of the execution context and  *)
(* variables it works on, and of the DoCommand continuation dispatch       *)
(* (src/src/libs/game/action/docommand.cpp); and, each with variables of   *)
(* its own, of the MessageBus, the Combat rounds, the AttackSchedule of an *)
(* attack action driven by the frames of Game::update, and the SmallSet    *)
(* of the game and system libraries.                                       *)
(*                                                                         *)
(* The decoded programs are inputs: a program is fixed instruction by      *)
(* instruction, the first time the machine fetches an offset, and stays as *)
(* it is from then on.  Offsets are byte offsets.  Floats are represented   *)
(* by their bit patterns; the diagnostic id counter of Variable (g_id) is  *)
(* not represented, it is never read by the machine.                       *)
(***************************************************************************)
EXTENDS Integers, Sequences, FiniteSets, TLC

(***************************************************************************)
(* Bounds of the model.                                                    *)
(***************************************************************************)
MaxStack == 4
MaxRet == 2
MaxResumes == 2
MaxActions == 2
MaxInvoked == 2
MaxNest == 1
MaxRegistrations == 3
MaxMessages == 2
MaxRoundTime == 9
MaxText == 3

(***************************************************************************)
(* Program constants.                                                      *)
(***************************************************************************)
(* The co-allocated capacity of the SmallSet<int, 2> of the tests. *)
Capacity == 2

kStartInstructionOffset == 13
kStoreStateResume == 16
kFailure == -1

NullProgram == 0
Programs == {1, 2, 3, 4, 5, 6}
Actors == {8, 9}

(* Instruction::nextOffset as laid out by the program reader: instructions *)
(* of 10 and 6 bytes alternate from the entry offset.                      *)
NaturalSuccessor(o) == IF (o - kStartInstructionOffset) % 16 = 0 THEN o + 10 ELSE o + 6

IsBoundary(o) ==
    /\ o >= kStartInstructionOffset
    /\ (o - kStartInstructionOffset) % 16 \in {0, 10}

(* ScriptProgram::length(): byte length of each of the programs.           *)
ProgramLength(p) ==
    CASE p = 1 -> 55 [] p = 3 -> 77 [] p \in {4, 5} -> 45 [] OTHER -> 93

Offsets(p) == {o \in kStartInstructionOffset..(ProgramLength(p) - 1) : IsBoundary(o)}

(* C++ integer division truncates toward zero.                             *)
CDiv(a, b) == IF a >= 0 THEN a \div b ELSE -((-a) \div b)

Last(s) == s[Len(s)]
Front(s) == SubSeq(s, 1, Len(s) - 1)

(***************************************************************************)
(* Variable (variable.h): type tag plus payload.                           *)
(***************************************************************************)
Var(t, x) == [type |-> t, v |-> x]
ofInt(x) == Var("Int", x)
ofFloat(x) == Var("Float", x)
ofVector(x, y, z) == Var("Vector", <<x, y, z>>)

(***************************************************************************)
(* Payload of a Variable.  intValue, objectId and floatValue share the     *)
(* storage of one union, so reading intValue of a Float gives the bit      *)
(* pattern of the float and the other way round; the constructors of the   *)
(* other types leave it 0.  The payload is kept as the 32-bit word: that   *)
(* of a float is its IEEE-754 single-precision bit pattern read as a       *)
(* signed integer.                                                         *)
(***************************************************************************)
kMinInt == -2147483647 - 1
kMaxInt == -(kMinInt + 1)

(* The bit pattern of the float whose value is the integer n.              *)
Float(n) ==
    LET m == IF n < 0 THEN -n ELSE n
        e == CHOOSE k \in 0..23 : 2^k <= m /\ m < 2^(k + 1)
        bits == IF m = 0 THEN 0
                ELSE (127 + e) * 2^23 + (m - 2^e) * 2^(23 - e)
    IN IF n < 0 THEN bits + kMinInt ELSE bits

(* The pattern without its sign bit. *)
Magnitude(b) == IF b < 0 THEN b - kMinInt ELSE b

(* The integer a bit pattern is the float of: the mantissa with its        *)
(* leading one, shifted by the exponent.                                   *)
Number(b) ==
    LET m == Magnitude(b)
        e == (m \div 2^23) - 127
        n == IF m = 0 THEN 0 ELSE (2^23 + (m % 2^23)) \div 2^(23 - e)
    IN IF b < 0 THEN -n ELSE n

(* std::max(a, b) of two floats, neither a NaN: b if a < b, else a.  The   *)
(* patterns of the non-negative floats are ordered as the floats, those of *)
(* the negative ones the other way round.                                  *)
FloatMax(a, b) ==
    LET key(x) == IF x < 0 THEN -Magnitude(x) ELSE x
    IN IF key(a) < key(b) THEN b ELSE a

(* kFloatTolerance, 1e-5 as a float (0x3727C5AC), and the float nearest to *)
(* its reciprocal, 100000.                                                 *)
kFloatTolerance == 925353388

(* left / right of a float of integer value by the tolerance or by a float *)
(* of integer value that divides it.  The quotient by the tolerance is the *)
(* float nearest to left * 100000.0025, which is left * 100000 for the     *)
(* small values of left.                                                   *)
FloatDivide(left, right) ==
    IF right = kFloatTolerance THEN Float(Number(left) * 100000)
    ELSE LET m == IF Number(left) < 0 THEN -Number(left) ELSE Number(left)
         IN Float(CHOOSE q \in -m..m : q * Number(right) = Number(left))

(* Unary minus of a float flips the sign bit. *)
FloatNeg(b) == IF b < 0 THEN b - kMinInt ELSE b + kMinInt

(* fabs(left - right) < kFloatTolerance, a tolerance below 1, of two       *)
(* floats of integer value.                                                *)
FloatEq(left, right) == Number(left) = Number(right)

intValue(var) == IF var.type \in {"Int", "Object", "Float"} THEN var.v ELSE 0

floatValue(var) == intValue(var)
ofObject(id) == Var("Object", id)
ofAction(ctx) == Var("Action", ctx)
ofNull == Var("Void", 0)
ofString(str) == Var("String", str)
ofEffect(e) == Var("Effect", e)
ofEvent(e) == Var("Event", e)
ofLocation(e) == Var("Location", e)
ofTalent(e) == Var("Talent", e)

(* The null engine-type pointer. *)
nullptr == 0

(* Object id sentinels (script types). *)
kObjectInvalid == 0
kObjectSelf == 1

(***************************************************************************)
(* Argument and ExecutionContext (variable.h, executioncontext.h).         *)
(* savedState is a reference into the heap of ExecutionState objects,      *)
(* 0 being the null pointer.                                               *)
(***************************************************************************)
Arg(k, var) == [kind |-> k, var |-> var]

Context(r, s, a) == [routines |-> r, savedState |-> s, args |-> a]

TheRoutines == 1

(* The scripts the engine starts (ScriptRunner::run): a program and the   *)
(* arguments of the run.                                                   *)
Script(p, a) == [program |-> p, args |-> a]

Scripts ==
    { Script(NullProgram, <<>>),
      Script(1, <<Arg("Caller", ofObject(5))>>),
      Script(2, <<Arg("ScriptVar", ofInt(1))>>),
      Script(2, <<Arg("LastOpenedBy", ofObject(7)), Arg("Caller", ofObject(5)),
                  Arg("Caller", ofObject(6))>>) }

(* The script whose program is program 3, run for the object 42.           *)
OperationScripts == { Script(3, <<Arg("Caller", ofObject(42))>>) }

(***************************************************************************)
(* ExecutionState: the record STORE_STATE fills.                           *)
(***************************************************************************)
ExecutionState(g, l, p, o) == [globals |-> g, locals |-> l, program |-> p, insOffset |-> o]

DefaultState == ExecutionState(<<>>, <<>>, NullProgram, 0)

(***************************************************************************)
(* Routine table (external collaborator): declared argument types and      *)
(* return type of the native routines scripts call.                        *)
(*   1: a DelayCommand-like routine taking an Action, returning nothing;   *)
(*   2: a routine taking an Int and returning an Int, which may throw;     *)
(*   3: a GetPosition-like routine without parameters returning a Vector;  *)
(*   4: a routine taking a Vector and an Int and returning a Float.        *)
(***************************************************************************)
RoutineIds == {1, 2, 3, 4}

Routine(id) ==
    CASE id = 2 -> [args |-> <<"Int">>, ret |-> "Int", mayThrow |-> TRUE]
      [] id = 3 -> [args |-> <<>>, ret |-> "Vector", mayThrow |-> FALSE]
      [] id = 4 -> [args |-> <<"Vector", "Int">>, ret |-> "Float", mayThrow |-> FALSE]
      [] OTHER -> [args |-> <<"Action">>, ret |-> "Void", mayThrow |-> FALSE]

(* What the engine saw of the last routine invocation. *)
Call(id, args, ret) == [routine |-> id, args |-> args, ret |-> ret]
NoCall == Call(0, <<>>, ofNull)

RoutineResults == {0, 1}

(***************************************************************************)
(* Instruction: the fields the handlers read.                              *)
(***************************************************************************)
Ins(t, o, sz, so, sl, jo, iv, r, ac) ==
    [type |-> t, offset |-> o, nextOffset |-> NaturalSuccessor(o),
     size |-> sz, stackOffset |-> so, sizeLocals |-> sl, jumpOffset |-> jo,
     intValue |-> iv, routine |-> r, argCount |-> ac,
     sizeNoDestroy |-> 0, floatValue |-> 0, strValue |-> <<>>, objectId |-> 0]

NoIns == Ins("NONE", 0, 0, 0, 0, 0, 0, 0, 0)

JumpOffsets(o) == {d \in {-16, 16} : IsBoundary(o + d)}

InsOp(t, o) == Ins(t, o, 0, 0, 0, 0, 0, 0, 0)
InsCONSTI(o, iv) == Ins("CONSTI", o, 0, 0, 0, 0, iv, 0, 0)
InsJump(t, o, d) == Ins(t, o, 0, 0, 0, d, 0, 0, 0)
InsMOVSP(o, so) == Ins("MOVSP", o, 0, so, 0, 0, 0, 0, 0)
InsCPDOWNSP(o, sz, so) == Ins("CPDOWNSP", o, sz, so, 0, 0, 0, 0, 0)
InsSTORE_STATE(o, sz, sl) == Ins("STORE_STATE", o, sz, 0, sl, 0, 0, 0, 0)
InsACTION(o, r, ac) == Ins("ACTION", o, 0, 0, 0, 0, 0, r, ac)
InsCONSTF(o, f) == [InsOp("CONSTF", o) EXCEPT !.floatValue = f]
InsCONSTS(o, str) == [InsOp("CONSTS", o) EXCEPT !.strValue = str]
InsCONSTO(o, id) == [InsOp("CONSTO", o) EXCEPT !.objectId = id]
InsCopy(t, o, sz, so) == Ins(t, o, sz, so, 0, 0, 0, 0, 0)
InsSized(t, o, sz) == Ins(t, o, sz, 0, 0, 0, 0, 0, 0)
InsDESTRUCT(o, sz, so, snd) ==
    [Ins("DESTRUCT", o, sz, so, 0, 0, 0, 0, 0) EXCEPT !.sizeNoDestroy = snd]

(* Program 1 ranges over the programs of five instructions whose first     *)
(* three are any constants, jumps, calls, returns, routine calls or an     *)
(* opcode without handler, and whose last two are returns or jumps.        *)
ControlInstructions(o) ==
    IF o < 39 THEN
        {InsCONSTI(o, iv) : iv \in {0, 1}}
        \cup {InsJump(t, o, d) : t \in {"JMP", "JSR", "JZ", "JNZ"}, d \in JumpOffsets(o)}
        \cup {InsOp(t, o) : t \in {"CONSTF", "RETN", "NOP", "UNKNOWN"}}
        \cup {InsMOVSP(o, -4)}
        \cup {InsACTION(o, 2, ac) : ac \in 0..2}
    ELSE {InsOp("RETN", o), InsJump("JMP", o, -16)}

(* Program 2 ranges over programs laid out the way the compiler lays out   *)
(* a deferred command: the stores of the frame, STORE_STATE, a jump over   *)
(* the deferred code, the deferred code, the routine call taking the       *)
(* Action, and the code after it, which defers a second command.           *)
ContinuationInstructions(o) ==
    CASE o = 13 -> {InsCONSTI(o, iv) : iv \in {0, 1}}
      [] o = 23 -> {InsOp("SAVEBP", o), InsOp("CONSTF", o), InsOp("NOP", o),
                    InsCONSTO(o, kObjectSelf), InsCONSTO(o, 3)}
      [] o = 29 -> {InsSTORE_STATE(o, sz, sl) : sz \in {0, 4}, sl \in {0, 4}} \cup {InsOp("NOP", o)}
      [] o = 39 -> {InsJump("JMP", o, 16)}
      [] o = 45 -> {InsOp("RETN", o), InsCPDOWNSP(o, 4, -8), InsMOVSP(o, -4)}
      [] o = 55 -> {InsACTION(o, 1, ac) : ac \in 0..2}
      [] o = 61 -> {InsCPDOWNSP(o, 4, -8), InsMOVSP(o, -4), InsOp("RETN", o)}
      [] o = 71 -> {InsSTORE_STATE(o, sz, 4) : sz \in {0, 4}}
      [] o = 77 -> {InsACTION(o, 1, 1)}
      [] o = 87 -> {InsOp("RETN", o)}
      [] OTHER -> {}

(* The operations a program may apply to the stack it has built.          *)
StackOperations(o) ==
    {InsOp(t, o) : t \in
        {"ADDII", "SUBII", "MULII", "EQUALII", "NEQUALII", "GEQII", "GTII", "LTII",
         "LEQII", "LOGANDII", "LOGORII", "ADDFF", "SUBFF", "MULFF", "EQUALFF",
         "NEQUALFF", "ADDIF", "ADDFI", "ADDSS", "EQUALSS", "NEQUALSS", "EQUALOO",
         "NEQUALOO", "NEGI", "NEGF", "NOTI", "RESTOREBP", "SAVEBP", "RETN"}}
    \cup {InsMOVSP(o, so) : so \in {-4, -8}}
    \cup {Ins(t, o, 0, so, 0, 0, 0, 0, 0) : t \in {"INCISP", "DECISP"}, so \in {-4, -8}}
    \cup {Ins(t, o, 0, so, 0, 0, 0, 0, 0) : t \in {"INCIBP", "DECIBP"}, so \in {-4, 0}}
    \cup {InsCopy("CPDOWNSP", o, 4, -8), InsCopy("CPDOWNSP", o, 8, -16),
          InsCopy("CPTOPSP", o, 4, -4), InsCopy("CPTOPSP", o, 4, -8),
          InsCopy("CPTOPSP", o, 8, -8), InsCopy("CPDOWNBP", o, 4, -4),
          InsCopy("CPTOPBP", o, 4, -4), InsCopy("CPTOPBP", o, 4, 0)}
    \cup {InsDESTRUCT(o, 8, 0, 4), InsDESTRUCT(o, 8, 4, 4), InsDESTRUCT(o, 12, 4, 4),
          InsDESTRUCT(o, 12, 0, 8), InsDESTRUCT(o, 12, 4, 8), InsDESTRUCT(o, 12, 8, 4),
          InsDESTRUCT(o, 16, 4, 8), InsDESTRUCT(o, 8, 0, 0)}
    \cup {InsSized(t, o, sz) : t \in {"EQUALTT", "NEQUALTT"}, sz \in {4, 8}}
    \cup {InsJump(t, o, 16) : t \in {"JZ", "JNZ"}}
    \cup {InsACTION(o, 4, ac) : ac \in 1..3}
    \cup {InsACTION(o, 2, 1), InsACTION(o, 1, 1)}

(* Program 3 ranges over the straight-line programs that build a stack of  *)
(* up to four slots with constants, reserved variables, a saved base       *)
(* pointer or the vector a routine returns, apply one operation to it and  *)
(* clean up.                                                               *)
OperationInstructions(o) ==
    CASE o = 13 ->
            {InsCONSTI(o, 0), InsCONSTI(o, 1), InsCONSTF(o, Float(1)), InsCONSTS(o, <<"a">>),
             InsCONSTO(o, kObjectSelf), InsCONSTO(o, 3)}
            \cup {InsOp(t, o) : t \in {"RSADDI", "RSADDF", "RSADDS", "RSADDO", "RSADDEFF",
                                       "RSADDEVT", "RSADDLOC", "RSADDTAL"}}
      [] o = 23 -> {InsCONSTI(o, 0), InsCONSTI(o, 1), InsCONSTF(o, Float(2)), InsOp("SAVEBP", o),
                    InsACTION(o, 3, 0), InsOp("NOP", o)}
      [] o = 29 -> {InsCONSTI(o, 0), InsCONSTI(o, 1), InsACTION(o, 4, 1), InsOp("NOP", o)}
      [] o = 39 -> {InsCONSTI(o, 1), InsOp("NOP", o)}
      [] o = 45 -> StackOperations(o)
      [] o = 55 -> {InsOp("RETN", o), InsMOVSP(o, -4), InsJump("JNZ", o, 16)}
      [] o = 61 -> {InsOp("RETN", o)}
      [] o = 71 -> {InsOp("RETN", o)}
      [] OTHER -> {}

(* Program 4 ranges over the programs CONSTI a; CONSTI b; OP; RETN, OP an  *)
(* operation on two ints.                                                  *)
ArithmeticInstructions(o) ==
    CASE o \in {13, 23} ->
            {InsCONSTI(o, iv) : iv \in {kMinInt, -8, -7, -1, 0, 1, 2, 3, 31, 32, kMaxInt}}
      [] o = 29 -> {InsOp(t, o) : t \in
                        {"ADDII", "SUBII", "MULII", "EQUALII", "NEQUALII", "GEQII",
                         "GTII", "LTII", "LEQII", "LOGANDII", "LOGORII", "SHRIGHTII"}}
      [] o = 39 -> {InsOp("RETN", o)}
      [] OTHER -> {}

(* Program 5 ranges over the programs that push a numerator, an int or a   *)
(* float, and a float divisor, divide and return.                          *)
DivisionInstructions(o) ==
    CASE o = 13 -> {InsCONSTI(o, n) : n \in {-4, 0, 4, 6}}
                   \cup {InsCONSTF(o, Float(n)) : n \in {-4, 0, 4, 6}}
      [] o = 23 -> {InsCONSTF(o, Float(d)) : d \in {-2, -1, 0, 1, 2}}
                   \cup {InsCONSTF(o, FloatNeg(Float(0)))}
      [] o = 29 -> {InsOp("DIVFF", o), InsOp("DIVIF", o)}
      [] o = 39 -> {InsOp("RETN", o)}
      [] OTHER -> {}

(* Program 6 ranges over the programs that defer a command from inside    *)
(* zero, one or two subroutine calls: STORE_STATE at 45 (resume offset 61) *)
(* is reached through JSR at 13 and at 29 or by falling through; the       *)
(* deferred code at 61 returns or calls the subroutine at 77 itself.       *)
ResumeInstructions(o) ==
    CASE o \in {13, 29} -> {InsJump("JSR", o, 16), InsOp("NOP", o)}
      [] o \in {23, 39} -> {InsOp("RETN", o), InsOp("NOP", o)}
      [] o = 45 -> {InsSTORE_STATE(o, 0, 0)}
      [] o = 55 -> {InsJump("JMP", o, 16)}
      [] o = 61 -> {InsOp("RETN", o), InsJump("JSR", o, 16)}
      [] o = 71 -> {InsACTION(o, 1, 1)}
      [] o = 77 -> {InsOp("RETN", o), InsJump("JMP", o, 16)}
      [] o = 87 -> {InsOp("RETN", o)}
      [] OTHER -> {}

(* The instructions program p may hold at offset o.                        *)
InstructionsAt(p, o) ==
    CASE p = 1 -> ControlInstructions(o)
      [] p = 6 -> ResumeInstructions(o)
      [] p = 3 -> OperationInstructions(o)
      [] p = 4 -> ArithmeticInstructions(o)
      [] p = 5 -> DivisionInstructions(o)
      [] OTHER -> ContinuationInstructions(o)

(* Variant: the opcode without handler is given the empty handler.         *)
HandledWithUnknown ==
    {"CPDOWNSP", "CONSTI", "CONSTF", "ACTION", "MOVSP", "JMP", "JSR", "JZ",
     "RETN", "JNZ", "SAVEBP", "STORE_STATE", "NOP", "NOP2",
     "RSADDI", "RSADDF", "RSADDS", "RSADDO", "RSADDEFF", "RSADDEVT", "RSADDLOC",
     "RSADDTAL", "CPTOPSP", "CONSTS", "CONSTO", "CPDOWNBP", "CPTOPBP", "DESTRUCT",
     "RESTOREBP", "NEGI", "NEGF", "NOTI", "DECISP", "INCISP", "DECIBP", "INCIBP",
     "EQUALTT", "NEQUALTT", "ADDII", "SUBII", "MULII", "EQUALII", "NEQUALII",
     "GEQII", "GTII", "LTII", "LEQII", "LOGANDII", "LOGORII", "ADDFF", "SUBFF",
     "MULFF", "EQUALFF", "NEQUALFF", "ADDIF", "ADDFI", "ADDSS", "EQUALSS",
     "NEQUALSS", "EQUALOO", "NEQUALOO", "SHRIGHTII", "DIVFF", "DIVIF",
     "UNKNOWN"}

(* Opcodes with an installed handler (the g_handlers table, NOP, NOP2).    *)
Handled ==
    {"CPDOWNSP", "CONSTI", "CONSTF", "ACTION", "MOVSP", "JMP", "JSR", "JZ",
     "RETN", "JNZ", "SAVEBP", "STORE_STATE", "NOP", "NOP2",
     "RSADDI", "RSADDF", "RSADDS", "RSADDO", "RSADDEFF", "RSADDEVT", "RSADDLOC",
     "RSADDTAL", "CPTOPSP", "CONSTS", "CONSTO", "CPDOWNBP", "CPTOPBP", "DESTRUCT",
     "RESTOREBP", "NEGI", "NEGF", "NOTI", "DECISP", "INCISP", "DECIBP", "INCIBP",
     "EQUALTT", "NEQUALTT", "ADDII", "SUBII", "MULII", "EQUALII", "NEQUALII",
     "GEQII", "GTII", "LTII", "LEQII", "LOGANDII", "LOGORII", "ADDFF", "SUBFF",
     "MULFF", "EQUALFF", "NEQUALFF", "ADDIF", "ADDFI", "ADDSS", "EQUALSS",
     "NEQUALSS", "EQUALOO", "NEQUALOO", "SHRIGHTII", "DIVFF", "DIVIF"}

(***************************************************************************)
(* The handlers work on a record w holding the machine's members (stack,   *)
(* returnOffsets, globalCount, nextInstruction, savedState, program,       *)
(* context), the engine state a native routine can reach (heap, actions,   *)
(* invoked) and two flags: exc, a C++ exception is propagating, and ub,    *)
(* the handler has executed an operation with undefined behaviour (access  *)
(* to a slot outside the vector).                                          *)
(***************************************************************************)
Throw(w) == [w EXCEPT !.exc = TRUE]
Undefined(w) == [w EXCEPT !.ub = TRUE]
Stopped(w) == w.exc \/ w.ub
Push(w, var) == [w EXCEPT !.stack = Append(@, var)]
Pop(w) == [w EXCEPT !.stack = Front(@)]

(* throwIfInvalidType *)
throwIfInvalidType(w, expected, actual) == IF actual # expected THEN Throw(w) ELSE w

(* getIntFromStack / getFloatFromStack: move the top out, pop, then check. *)
getFromStack(w, expected) ==
    IF w.stack = <<>> THEN [w |-> Undefined(w), val |-> 0]
    ELSE LET var == Last(w.stack)
             w1 == throwIfInvalidType(Pop(w), expected, var.type)
         IN [w |-> w1, val |-> IF w1.exc THEN 0 ELSE var.v]

getIntFromStack(w) == getFromStack(w, "Int")
getFloatFromStack(w) == getFromStack(w, "Float")

(* logOperands(n): with the channel enabled logValues reads the n slots    *)
(* from the top, which are not all there on a stack of fewer slots.        *)
logOperands(w, n) == IF w.logEnabled /\ n > Len(w.stack) THEN Undefined(w) ELSE w

(* The number of slots the handler of the instruction logs as its first    *)
(* statement.                                                              *)
LoggedOperands(i) ==
    CASE i.type \in {"EQUALTT", "NEQUALTT"} -> CDiv(i.size, 4) * 2
      [] i.type \in {"NEGI", "NEGF", "NOTI", "JZ", "JNZ"} -> 1
      [] i.type \in {"ADDII", "SUBII", "MULII", "EQUALII", "NEQUALII", "GEQII", "GTII",
                     "LTII", "LEQII", "LOGANDII", "LOGORII", "SHRIGHTII", "ADDFF",
                     "SUBFF", "MULFF", "EQUALFF", "NEQUALFF", "DIVFF", "ADDIF", "DIVIF",
                     "ADDFI", "ADDSS", "EQUALSS", "NEQUALSS", "EQUALOO", "NEQUALOO"} -> 2
      [] OTHER -> 0

(* The three getFloatFromStack calls of getVectorFromStack, in order: the  *)
(* floats popped so far are in acc, the first popped (z) first.            *)
RECURSIVE PopFloats(_, _, _)
PopFloats(w, count, acc) ==
    IF count = 0 THEN [w |-> w, val |-> acc]
    ELSE LET r == getFloatFromStack(w)
         IN IF Stopped(r.w) THEN [w |-> r.w, val |-> acc]
            ELSE PopFloats(r.w, count - 1, Append(acc, r.val))

(* float z, y, x popped in this order; the vector is (x, y, z).            *)
getVectorFromStack(w) ==
    LET r == PopFloats(w, 3, <<>>)
    IN [w |-> r.w,
        val |-> IF Stopped(r.w) THEN ofNull ELSE ofVector(r.val[3], r.val[2], r.val[1])]

(* for (i < count) _stack[dstIdx++] = _stack[srcIdx++];  indices 0-based   *)
RECURSIVE CopySlots(_, _, _, _)
CopySlots(stack, dstIdx, srcIdx, count) ==
    IF count <= 0 THEN stack
    ELSE CopySlots([stack EXCEPT ![dstIdx + 1] = stack[srcIdx + 1]], dstIdx + 1, srcIdx + 1, count - 1)

InStack(stack, idx, count) == count <= 0 \/ (idx >= 0 /\ idx + count <= Len(stack))

executeCPDOWNSP(w, i) ==
    LET count == CDiv(i.size, 4)
        srcIdx == Len(w.stack) - count
        dstIdx == Len(w.stack) + CDiv(i.stackOffset, 4)
    IN IF ~(InStack(w.stack, srcIdx, count) /\ InStack(w.stack, dstIdx, count)) THEN Undefined(w)
       ELSE [w EXCEPT !.stack = CopySlots(@, dstIdx, srcIdx, count)]

executeCONSTI(w, i) == Push(w, ofInt(i.intValue))

executeCONSTF(w, i) == Push(w, ofFloat(i.floatValue))

executeCONSTS(w, i) == Push(w, ofString(i.strValue))

(* ExecutionContext::findArg: the variable of the first argument of the    *)
(* kind, or the null pointer (ofNull stands for it).                       *)
RECURSIVE findArgFrom(_, _, _)
findArgFrom(args, k, kind) ==
    IF k > Len(args) THEN ofNull
    ELSE IF args[k].kind = kind THEN args[k].var
    ELSE findArgFrom(args, k + 1, kind)

findArg(ctx, kind) == findArgFrom(ctx.args, 1, kind)

(* Variant: the sentinel is pushed as it is encoded.                       *)
executeCONSTOUnresolved(w, i) == Push(w, ofObject(i.objectId))

executeCONSTO(w, i) ==
    IF i.objectId # kObjectSelf THEN Push(w, ofObject(i.objectId))
    ELSE LET caller == findArg(w.context, "Caller")
         IN IF caller # ofNull THEN Push(w, caller)
            ELSE Push(w, ofObject(kObjectInvalid))

(* executeRSADDI .. executeRSADDTAL: the zero value of the declared type.  *)
executeRSADDI(w, i) == Push(w, ofInt(0))
executeRSADDF(w, i) == Push(w, ofFloat(0))
executeRSADDS(w, i) == Push(w, ofString(<<>>))
executeRSADDO(w, i) == Push(w, ofObject(kObjectInvalid))
executeRSADDEFF(w, i) == Push(w, ofEffect(nullptr))
executeRSADDEVT(w, i) == Push(w, ofEvent(nullptr))
executeRSADDLOC(w, i) == Push(w, ofLocation(nullptr))
executeRSADDTAL(w, i) == Push(w, ofTalent(nullptr))

(* for (i < count) _stack.push_back(_stack[srcIdx++]);  indices 0-based;   *)
(* the stack grows as fast as srcIdx, so only the first read can miss it.  *)
RECURSIVE PushSlots(_, _, _)
PushSlots(stack, srcIdx, count) ==
    IF count <= 0 THEN stack
    ELSE PushSlots(Append(stack, stack[srcIdx + 1]), srcIdx + 1, count - 1)

(* Variant: the slots are copied over the top of the stack, which keeps   *)
(* its size.                                                               *)
executeCPTOPSPInPlace(w, i) ==
    LET count == CDiv(i.size, 4)
        srcIdx == Len(w.stack) + CDiv(i.stackOffset, 4)
        dstIdx == Len(w.stack) - count
    IN IF ~(InStack(w.stack, srcIdx, count) /\ InStack(w.stack, dstIdx, count)) THEN Undefined(w)
       ELSE [w EXCEPT !.stack = CopySlots(@, dstIdx, srcIdx, count)]

executeCPTOPSP(w, i) ==
    LET count == CDiv(i.size, 4)
        srcIdx == Len(w.stack) + CDiv(i.stackOffset, 4)
    IN IF count > 0 /\ ~InStack(w.stack, srcIdx, 1) THEN Undefined(w)
       ELSE [w EXCEPT !.stack = PushSlots(@, srcIdx, count)]

(* CPDOWNBP with the destination counted from the top of the stack. *)
executeCPDOWNBPFromTop(w, i) ==
    LET count == CDiv(i.size, 4)
        srcIdx == Len(w.stack) - count
        dstIdx == Len(w.stack) + CDiv(i.stackOffset, 4)
    IN IF ~(InStack(w.stack, srcIdx, count) /\ InStack(w.stack, dstIdx, count)) THEN Undefined(w)
       ELSE [w EXCEPT !.stack = CopySlots(@, dstIdx, srcIdx, count)]

executeCPDOWNBP(w, i) ==
    LET count == CDiv(i.size, 4)
        srcIdx == Len(w.stack) - count
        dstIdx == w.globalCount + CDiv(i.stackOffset, 4)
    IN IF ~(InStack(w.stack, srcIdx, count) /\ InStack(w.stack, dstIdx, count)) THEN Undefined(w)
       ELSE [w EXCEPT !.stack = CopySlots(@, dstIdx, srcIdx, count)]

executeCPTOPBP(w, i) ==
    LET count == CDiv(i.size, 4)
        srcIdx == w.globalCount + CDiv(i.stackOffset, 4)
    IN IF count > 0 /\ ~InStack(w.stack, srcIdx, 1) THEN Undefined(w)
       ELSE [w EXCEPT !.stack = PushSlots(@, srcIdx, count)]

executeMOVSP(w, i) ==
    LET count == CDiv(-i.stackOffset, 4)
    IN IF count > Len(w.stack) THEN Undefined(w)
       ELSE IF count <= 0 THEN w
       ELSE [w EXCEPT !.stack = SubSeq(@, 1, Len(@) - count)]

executeJMP(w, i) == [w EXCEPT !.nextInstruction = i.offset + i.jumpOffset]

(* Variant: the jump target is pushed as the return address.               *)
executeJSRPushTarget(w, i) ==
    [w EXCEPT !.returnOffsets = Append(@, i.offset + i.jumpOffset),
              !.nextInstruction = i.offset + i.jumpOffset]

executeJSR(w, i) ==
    [w EXCEPT !.returnOffsets = Append(@, i.nextOffset),
              !.nextInstruction = i.offset + i.jumpOffset]

(* Variant: the operand is popped only when the branch is taken.           *)
executeJZPeek(w, i) ==
    LET r == getIntFromStack(w)
    IN IF Stopped(r.w) THEN r.w
       ELSE IF r.val = 0 THEN [r.w EXCEPT !.nextInstruction = i.offset + i.jumpOffset]
       ELSE w

executeJZ(w, i) ==
    LET r == getIntFromStack(w)
    IN IF Stopped(r.w) THEN r.w
       ELSE IF r.val = 0 THEN [r.w EXCEPT !.nextInstruction = i.offset + i.jumpOffset]
       ELSE r.w

executeJNZ(w, i) ==
    LET r == getIntFromStack(w)
    IN IF Stopped(r.w) THEN r.w
       ELSE IF r.val # 0 THEN [r.w EXCEPT !.nextInstruction = i.offset + i.jumpOffset]
       ELSE r.w

(* Variant: without a return address the run goes on behind the RETN.      *)
executeRETNFallThrough(w, i) ==
    IF w.returnOffsets = <<>> THEN w
    ELSE [w EXCEPT !.nextInstruction = Last(w.returnOffsets),
                   !.returnOffsets = Front(@)]

executeRETN(w, i) ==
    IF w.returnOffsets = <<>> THEN [w EXCEPT !.nextInstruction = ProgramLength(w.program)]
    ELSE [w EXCEPT !.nextInstruction = Last(w.returnOffsets),
                   !.returnOffsets = Front(@)]

(* Variant: the boundary pushed is the one that was in force before.      *)
executeSAVEBPOldBoundary(w, i) ==
    [w EXCEPT !.globalCount = Len(w.stack), !.stack = Append(@, ofInt(w.globalCount))]

executeSAVEBP(w, i) ==
    LET n == Len(w.stack)
    IN [w EXCEPT !.globalCount = n, !.stack = Append(@, ofInt(n))]

executeRESTOREBP(w, i) ==
    LET r == getIntFromStack(w)
    IN IF Stopped(r.w) THEN r.w ELSE [r.w EXCEPT !.globalCount = r.val]

(* _stack.resize(n): cut, or fill up with default (Void) variables; a      *)
(* negative n converts to a size no vector can have and resize throws.     *)
resize(w, n) ==
    IF n < 0 THEN Throw(w)
    ELSE IF n <= Len(w.stack) THEN [w EXCEPT !.stack = SubSeq(@, 1, n)]
    ELSE [w EXCEPT !.stack = @ \o [k \in 1..(n - Len(@)) |-> ofNull]]

(* Variant: the stack is cut without moving the preserved slots down.     *)
executeDESTRUCTNoMove(w, i) ==
    LET startIdx == Len(w.stack) - CDiv(i.size, 4)
        startIdxNoDestroy == startIdx + CDiv(i.stackOffset, 4)
        countNoDestroy == CDiv(i.sizeNoDestroy, 4)
    IN IF ~(InStack(w.stack, startIdx, countNoDestroy)
            /\ InStack(w.stack, startIdxNoDestroy, countNoDestroy))
       THEN Undefined(w)
       ELSE resize(w, startIdx + countNoDestroy)

executeDESTRUCT(w, i) ==
    LET startIdx == Len(w.stack) - CDiv(i.size, 4)
        startIdxNoDestroy == startIdx + CDiv(i.stackOffset, 4)
        countNoDestroy == CDiv(i.sizeNoDestroy, 4)
    IN IF ~(InStack(w.stack, startIdx, countNoDestroy)
            /\ InStack(w.stack, startIdxNoDestroy, countNoDestroy))
       THEN Undefined(w)
       ELSE resize([w EXCEPT !.stack = CopySlots(@, startIdx, startIdxNoDestroy, countNoDestroy)],
                   startIdx + countNoDestroy)

executeNEGI(w, i) ==
    IF w.stack = <<>> THEN Undefined(w)
    ELSE [w EXCEPT !.stack[Len(w.stack)] = ofInt(-intValue(Last(w.stack)))]

executeNEGF(w, i) ==
    IF w.stack = <<>> THEN Undefined(w)
    ELSE [w EXCEPT !.stack[Len(w.stack)] = ofFloat(FloatNeg(floatValue(Last(w.stack))))]

executeNOTI(w, i) ==
    LET r == getIntFromStack(w)
    IN IF Stopped(r.w) THEN r.w ELSE Push(r.w, ofInt(IF r.val = 0 THEN 1 ELSE 0))

(* _stack[dstIdx] = Variable::ofInt(_stack[dstIdx].intValue + d)           *)
AddToSlot(w, dstIdx, d) ==
    IF ~InStack(w.stack, dstIdx, 1) THEN Undefined(w)
    ELSE [w EXCEPT !.stack[dstIdx + 1] = ofInt(intValue(w.stack[dstIdx + 1]) + d)]

executeDECISP(w, i) == AddToSlot(w, Len(w.stack) + CDiv(i.stackOffset, 4), -1)
executeINCISP(w, i) == AddToSlot(w, Len(w.stack) + CDiv(i.stackOffset, 4), 1)
executeDECIBP(w, i) == AddToSlot(w, w.globalCount + CDiv(i.stackOffset, 4), -1)
(* INCIBP with the slot counted from the top of the stack. *)
executeINCIBPFromTop(w, i) == AddToSlot(w, Len(w.stack) + CDiv(i.stackOffset, 4), 1)
executeINCIBP(w, i) == AddToSlot(w, w.globalCount + CDiv(i.stackOffset, 4), 1)

(* Variant: the first operand is read but left on the stack.               *)
withStackVariablesKeepFirst(w) ==
    IF Len(w.stack) < 2 THEN [w |-> Undefined(w), first |-> ofNull, second |-> ofNull]
    ELSE [w |-> [w EXCEPT !.stack = SubSeq(@, 1, Len(@) - 1)],
          first |-> w.stack[Len(w.stack) - 1], second |-> Last(w.stack)]

(* withStackVariables: the top is moved out and popped as second, then    *)
(* the next as first.                                                      *)
withStackVariables(w) ==
    IF Len(w.stack) < 2 THEN [w |-> Undefined(w), first |-> ofNull, second |-> ofNull]
    ELSE [w |-> [w EXCEPT !.stack = SubSeq(@, 1, Len(@) - 2)],
          first |-> w.stack[Len(w.stack) - 1], second |-> Last(w.stack)]

BoolInt(b) == IF b THEN 1 ELSE 0

IntIntOps ==
    {"ADDII", "SUBII", "MULII", "EQUALII", "NEQUALII", "GEQII", "GTII", "LTII",
     "LEQII", "LOGANDII", "LOGORII", "SHRIGHTII"}
FloatFloatOps == {"ADDFF", "SUBFF", "MULFF", "EQUALFF", "NEQUALFF", "DIVFF"}
IntFloatOps == {"ADDIF", "DIVIF"}
FloatIntOps == {"ADDFI"}
StringOps == {"ADDSS", "EQUALSS", "NEQUALSS"}
ObjectOps == {"EQUALOO", "NEQUALOO"}
BinaryOps == IntIntOps \cup FloatFloatOps \cup IntFloatOps \cup FloatIntOps
             \cup StringOps \cup ObjectOps

(* The tags the withXFromStack helper of the opcode checks, left then      *)
(* right.                                                                  *)
OperandTypes(t) ==
    CASE t \in IntIntOps -> <<"Int", "Int">>
      [] t \in FloatFloatOps -> <<"Float", "Float">>
      [] t \in IntFloatOps -> <<"Int", "Float">>
      [] t \in FloatIntOps -> <<"Float", "Int">>
      [] t \in StringOps -> <<"String", "String">>
      [] t \in ObjectOps -> <<"Object", "Object">>

(* The lambda of the opcode evaluates an expression whose behaviour is     *)
(* undefined: a sum, difference, product or negation outside the range of  *)
(* int, or a shift count outside 0 .. 31.                                  *)
UndefinedOperation(t, left, right) ==
    CASE t = "ADDII" -> \/ (right > 0 /\ left > kMaxInt - right)
                        \/ (right < 0 /\ left < kMinInt - right)
      [] t = "SUBII" -> \/ (right < 0 /\ left > kMaxInt + right)
                        \/ (right > 0 /\ left < kMinInt + right)
      [] t = "MULII" ->
            LET l == IF left < 0 THEN -left ELSE left
                r == IF right < 0 THEN -right ELSE right
                most == kMaxInt \div r
            IN IF left = 0 \/ right = 0 THEN FALSE
               ELSE IF left = kMinInt \/ right = kMinInt THEN left # 1 /\ right # 1
               ELSE IF (left < 0) = (right < 0) \/ kMaxInt % r # r - 1 THEN l > most
               ELSE l - 1 > most
      [] t = "SHRIGHTII" -> right < 0 \/ right >= 32 \/ left = kMinInt
      [] OTHER -> FALSE

(* Variant: the shift of the machine, which for a negative int fills in    *)
(* copies of the sign bit.                                                 *)
ShiftRightRaw(left, right) ==
    IF right = 31 THEN (IF left < 0 THEN -1 ELSE 0) ELSE left \div 2^right

(* The lambda of executeSHRIGHTII, 0 <= right < 32 and left # INT_MIN: a   *)
(* negative left is negated, shifted and negated back.                     *)
ShiftRight(left, right) ==
    LET shift(x) == IF right = 31 THEN 0 ELSE x \div 2^right
    IN IF left < 0 THEN -shift(-left) ELSE shift(left)

(* The variable the lambda of the opcode pushes for the payloads left and  *)
(* right.                                                                  *)
BinaryResult(t, left, right) ==
    CASE t \in {"ADDII"} -> ofInt(left + right)
      [] t = "SUBII" -> ofInt(left - right)
      [] t = "MULII" -> ofInt(left * right)
      [] t \in {"EQUALII", "EQUALSS", "EQUALOO"} -> ofInt(BoolInt(left = right))
      [] t \in {"NEQUALII", "NEQUALSS", "NEQUALOO"} -> ofInt(BoolInt(left # right))
      [] t = "EQUALFF" -> ofInt(BoolInt(FloatEq(left, right)))
      [] t = "NEQUALFF" -> ofInt(BoolInt(~FloatEq(left, right)))
      [] t = "GEQII" -> ofInt(BoolInt(left >= right))
      [] t = "GTII" -> ofInt(BoolInt(left > right))
      [] t = "LTII" -> ofInt(BoolInt(left < right))
      [] t = "LEQII" -> ofInt(BoolInt(left <= right))
      [] t = "LOGANDII" -> ofInt(BoolInt(left # 0 /\ right # 0))
      [] t = "LOGORII" -> ofInt(BoolInt(left # 0 \/ right # 0))
      [] t = "ADDFF" -> ofFloat(Float(Number(left) + Number(right)))
      [] t = "ADDIF" -> ofFloat(Float(left + Number(right)))
      [] t = "ADDFI" -> ofFloat(Float(Number(left) + right))
      [] t = "SUBFF" -> ofFloat(Float(Number(left) - Number(right)))
      [] t = "MULFF" -> ofFloat(Float(Number(left) * Number(right)))
      [] t = "ADDSS" -> ofString(left \o right)
      [] t = "SHRIGHTII" -> ofInt(ShiftRight(left, right))
      [] t = "DIVFF" -> ofFloat(FloatDivide(left, FloatMax(kFloatTolerance, right)))
      [] t = "DIVIF" -> ofFloat(FloatDivide(Float(left), FloatMax(kFloatTolerance, right)))

(* Variant: the lambdas of the opcodes on two ints are handed the top as   *)
(* the left operand.                                                       *)
executeBinaryReversed(w, i) ==
    LET r == withStackVariables(w)
        w1 == throwIfInvalidType(r.w, OperandTypes(i.type)[1], r.first.type)
        w2 == throwIfInvalidType(w1, OperandTypes(i.type)[2], r.second.type)
    IN IF Stopped(r.w) THEN r.w
       ELSE IF Stopped(w2) THEN w2
       ELSE IF i.type \notin IntIntOps
            THEN Push(w2, BinaryResult(i.type, r.first.v, r.second.v))
       ELSE IF UndefinedOperation(i.type, r.second.v, r.first.v) THEN Undefined(w2)
       ELSE Push(w2, BinaryResult(i.type, r.second.v, r.first.v))

(* The handlers of the binary opcodes: withXFromStack and the lambda.      *)
executeBinary(w, i) ==
    LET r == withStackVariables(w)
        w1 == throwIfInvalidType(r.w, OperandTypes(i.type)[1], r.first.type)
        w2 == throwIfInvalidType(w1, OperandTypes(i.type)[2], r.second.type)
    IN IF Stopped(r.w) THEN r.w
       ELSE IF Stopped(w2) THEN w2
       ELSE IF UndefinedOperation(i.type, r.first.v, r.second.v) THEN Undefined(w2)
       ELSE Push(w2, BinaryResult(i.type, r.first.v, r.second.v))

(* Variable::operator== : tag and payload, the id is not compared.         *)
VariableEquals(a, b) == a.type = b.type /\ a.v = b.v

(* The two pop loops and std::equal of EQUALTT / NEQUALTT: vars1 holds the *)
(* top numVariables slots, top first, vars2 the next ones.                 *)
TuplesEqual(stack, numVariables) ==
    LET vars1 == [k \in 1..numVariables |-> stack[Len(stack) - k + 1]]
        vars2 == [k \in 1..numVariables |-> stack[Len(stack) - numVariables - k + 1]]
    IN \A k \in 1..numVariables : VariableEquals(vars1[k], vars2[k])

(* Variant: the second tuple is compared in the opposite order.            *)
executeEQUALTTReversed(w, i) ==
    LET numVariables == CDiv(i.size, 4)
        n == Len(w.stack)
    IN IF numVariables > 0 /\ 2 * numVariables > n THEN Undefined(w)
       ELSE IF numVariables <= 0 THEN Push(w, ofInt(1))
       ELSE Push([w EXCEPT !.stack = SubSeq(@, 1, n - 2 * numVariables)],
                 ofInt(BoolInt(\A k \in 1..numVariables :
                     VariableEquals(w.stack[n - k + 1], w.stack[n - 2 * numVariables + k]))))

executeEQUALTT(w, i) ==
    LET numVariables == CDiv(i.size, 4)
    IN IF numVariables > 0 /\ 2 * numVariables > Len(w.stack) THEN Undefined(w)
       ELSE IF numVariables <= 0 THEN Push(w, ofInt(1))
       ELSE Push([w EXCEPT !.stack = SubSeq(@, 1, Len(@) - 2 * numVariables)],
                 ofInt(BoolInt(TuplesEqual(w.stack, numVariables))))

executeNEQUALTT(w, i) ==
    LET numVariables == CDiv(i.size, 4)
    IN IF numVariables > 0 /\ 2 * numVariables > Len(w.stack) THEN Undefined(w)
       ELSE IF numVariables <= 0 THEN Push(w, ofInt(0))
       ELSE Push([w EXCEPT !.stack = SubSeq(@, 1, Len(@) - 2 * numVariables)],
                 ofInt(BoolInt(~TuplesEqual(w.stack, numVariables))))

(* Variant: the resume offset is the natural successor of the instruction. *)
executeSTORE_STATEResumeNext(w, i) ==
    LET count == CDiv(i.size, 4)
        srcIdx == w.globalCount - count
        countLocals == CDiv(i.sizeLocals, 4)
        srcIdxLocals == Len(w.stack) - countLocals
    IN IF ~(InStack(w.stack, srcIdx, count) /\ InStack(w.stack, srcIdxLocals, countLocals))
       THEN Undefined(w)
       ELSE [w EXCEPT !.savedState =
                ExecutionState(SubSeq(w.stack, srcIdx + 1, srcIdx + count),
                               SubSeq(w.stack, srcIdxLocals + 1, srcIdxLocals + countLocals),
                               w.program,
                               i.nextOffset)]

executeSTORE_STATE(w, i) ==
    LET count == CDiv(i.size, 4)
        srcIdx == w.globalCount - count
        countLocals == CDiv(i.sizeLocals, 4)
        srcIdxLocals == Len(w.stack) - countLocals
    IN IF ~(InStack(w.stack, srcIdx, count) /\ InStack(w.stack, srcIdxLocals, countLocals))
       THEN Undefined(w)
       ELSE [w EXCEPT !.savedState =
                ExecutionState(SubSeq(w.stack, srcIdx + 1, srcIdx + count),
                               SubSeq(w.stack, srcIdxLocals + 1, srcIdxLocals + countLocals),
                               w.program,
                               i.offset + kStoreStateResume)]

(* Variant: no copy is made, every Action refers to the one saved state of *)
(* the machine and sees what is stored into it later.                      *)
AllocStateShared(heap, st) == [r \in 1..(Len(heap) + 1) |-> st]

(* std::make_shared<ExecutionState>(_savedState): a new heap object holding *)
(* a copy of the machine's saved state; the reference is its index.         *)
AllocState(heap, st) == Append(heap, st)

(* Variant: the copied context keeps the saved state of the running        *)
(* context instead of a copy of the machine's.                             *)
RECURSIVE MarshalArgsKeepState(_, _, _, _, _)
MarshalArgsKeepState(w, types, k, n, args) ==
    IF k > n \/ Stopped(w) THEN [w |-> w, args |-> args]
    ELSE IF types[k] = "Vector" THEN
        LET r == getVectorFromStack(w)
        IN MarshalArgsKeepState(r.w, types, k + 1, n,
                                IF Stopped(r.w) THEN args ELSE Append(args, r.val))
    ELSE IF types[k] = "Action" THEN
        MarshalArgsKeepState(w, types, k + 1, n,
            Append(args, ofAction(Context(w.context.routines, w.context.savedState,
                                          w.context.args))))
    ELSE IF w.stack = <<>> THEN [w |-> Undefined(w), args |-> args]
    ELSE IF Last(w.stack).type # types[k] THEN [w |-> Throw(w), args |-> args]
    ELSE MarshalArgsKeepState(Pop(w), types, k + 1, n, Append(args, Last(w.stack)))

(* The argument loop of executeACTION, parameters k..n (1-based).          *)
RECURSIVE MarshalArgs(_, _, _, _, _)
MarshalArgs(w, types, k, n, args) ==
    IF k > n \/ Stopped(w) THEN [w |-> w, args |-> args]
    ELSE IF types[k] = "Vector" THEN
        LET r == getVectorFromStack(logOperands(w, 3))
        IN IF Stopped(logOperands(w, 3)) THEN [w |-> logOperands(w, 3), args |-> args]
           ELSE MarshalArgs(r.w, types, k + 1, n,
                            IF Stopped(r.w) THEN args ELSE Append(args, r.val))
    ELSE IF types[k] = "Action" THEN
        LET h == AllocState(w.heap, w.savedState)
            ctx == Context(w.context.routines, Len(h), w.context.args)
        IN MarshalArgs([w EXCEPT !.heap = h], types, k + 1, n, Append(args, ofAction(ctx)))
    ELSE IF Stopped(logOperands(w, 1)) \/ w.stack = <<>> THEN [w |-> Undefined(w), args |-> args]
    ELSE IF Last(w.stack).type # types[k] THEN [w |-> Throw(w), args |-> args]
    ELSE MarshalArgs(Pop(w), types, k + 1, n, Append(args, Last(w.stack)))

(* Routine::invoke for the routines of the table: routine 1 hands its      *)
(* Action argument to the engine, routine 2 returns the int rv or throws,  *)
(* routine 3 returns the vector (rv, 2, 3), routine 4 the float rv.        *)
RoutineReturn(id, rv) ==
    CASE id = 2 -> ofInt(rv)
      [] id = 3 -> ofVector(Float(rv), Float(2), Float(3))
      [] id = 4 -> ofFloat(Float(rv))
      [] OTHER -> ofNull

Invoke(w, id, args, rv, th) ==
    IF Routine(id).mayThrow /\ th THEN [w |-> Throw(w), ret |-> ofNull]
    ELSE [w |-> [w EXCEPT !.invoked = @ + 1,
                          !.lastCall = Call(id, args, RoutineReturn(id, rv)),
                          !.actions = IF id = 1 /\ Len(args) >= 1
                                      THEN Append(@, args[1].v) ELSE @],
          ret |-> RoutineReturn(id, rv)]

(* Variant: a Void routine leaves its (null) return variable on the stack. *)
PushResultVoidSlot(w, returnType, retValue) ==
    IF returnType = "Vector" THEN
        Push(Push(Push(w, ofFloat(retValue.v[3])), ofFloat(retValue.v[2])), ofFloat(retValue.v[1]))
    ELSE Push(w, retValue)

PushResult(w, returnType, retValue) ==
    IF returnType = "Void" THEN w
    ELSE IF returnType = "Vector" THEN
        Push(Push(Push(w, ofFloat(retValue.v[3])), ofFloat(retValue.v[2])), ofFloat(retValue.v[1]))
    ELSE Push(w, retValue)

(* Variant: the argument count is looked at after the arguments the       *)
(* routine declares have been taken from the stack.                        *)
executeACTIONLateCheck(w, i, rv, th) ==
    LET routine == Routine(i.routine)
        n == IF i.argCount > Len(routine.args) THEN Len(routine.args) ELSE i.argCount
        m == MarshalArgs(w, routine.args, 1, n, <<>>)
    IN IF Stopped(m.w) THEN m.w
       ELSE IF i.argCount > Len(routine.args) THEN Throw(m.w)
       ELSE LET r == Invoke(m.w, i.routine, m.args, rv, th)
            IN IF Stopped(r.w) THEN r.w
               ELSE PushResult(r.w, routine.ret, r.ret)

executeACTION(w, i, rv, th) ==
    LET routine == Routine(i.routine)
    IN IF i.argCount > Len(routine.args) THEN Throw(w)
       ELSE LET m == MarshalArgs(w, routine.args, 1, i.argCount, <<>>)
            IN IF Stopped(m.w) THEN m.w
               ELSE LET r == Invoke(m.w, i.routine, m.args, rv, th)
                    IN IF Stopped(r.w) THEN r.w
                       ELSE PushResult(r.w, routine.ret, r.ret)

(* The handler table: handler->second(ins).                                *)
Dispatch(w, i, rv, th) ==
    CASE i.type = "CPDOWNSP" -> executeCPDOWNSP(w, i)
      [] i.type = "CONSTI" -> executeCONSTI(w, i)
      [] i.type = "CONSTF" -> executeCONSTF(w, i)
      [] i.type = "ACTION" -> executeACTION(w, i, rv, th)
      [] i.type = "MOVSP" -> executeMOVSP(w, i)
      [] i.type = "JMP" -> executeJMP(w, i)
      [] i.type = "JSR" -> executeJSR(w, i)
      [] i.type = "JZ" -> executeJZ(w, i)
      [] i.type = "JNZ" -> executeJNZ(w, i)
      [] i.type = "RETN" -> executeRETN(w, i)
      [] i.type = "SAVEBP" -> executeSAVEBP(w, i)
      [] i.type = "STORE_STATE" -> executeSTORE_STATE(w, i)
      [] i.type = "CONSTS" -> executeCONSTS(w, i)
      [] i.type = "CONSTO" -> executeCONSTO(w, i)
      [] i.type = "RSADDI" -> executeRSADDI(w, i)
      [] i.type = "RSADDF" -> executeRSADDF(w, i)
      [] i.type = "RSADDS" -> executeRSADDS(w, i)
      [] i.type = "RSADDO" -> executeRSADDO(w, i)
      [] i.type = "RSADDEFF" -> executeRSADDEFF(w, i)
      [] i.type = "RSADDEVT" -> executeRSADDEVT(w, i)
      [] i.type = "RSADDLOC" -> executeRSADDLOC(w, i)
      [] i.type = "RSADDTAL" -> executeRSADDTAL(w, i)
      [] i.type = "CPTOPSP" -> executeCPTOPSP(w, i)
      [] i.type = "CPDOWNBP" -> executeCPDOWNBP(w, i)
      [] i.type = "CPTOPBP" -> executeCPTOPBP(w, i)
      [] i.type = "DESTRUCT" -> executeDESTRUCT(w, i)
      [] i.type = "RESTOREBP" -> executeRESTOREBP(w, i)
      [] i.type = "NEGI" -> executeNEGI(w, i)
      [] i.type = "NEGF" -> executeNEGF(w, i)
      [] i.type = "NOTI" -> executeNOTI(w, i)
      [] i.type = "DECISP" -> executeDECISP(w, i)
      [] i.type = "INCISP" -> executeINCISP(w, i)
      [] i.type = "DECIBP" -> executeDECIBP(w, i)
      [] i.type = "INCIBP" -> executeINCIBP(w, i)
      [] i.type = "EQUALTT" -> executeEQUALTT(w, i)
      [] i.type = "NEQUALTT" -> executeNEQUALTT(w, i)
      [] i.type \in BinaryOps -> executeBinary(w, i)
      [] OTHER -> w

(***************************************************************************)
(* State.                                                                  *)
(*   stack, returnOffsets, globalCount, savedState, program, context: the  *)
(*       members of the VirtualMachine that is running or ran last;        *)
(*   insOff, ins: the locals of run(): the offset of the next instruction  *)
(*       and the instruction executed last (NoIns before the first step);  *)
(*   code: the decoded programs, code[p][o] being the instruction of the   *)
(*       program loaded as p at offset o (NoIns while no machine has       *)
(*       fetched it);                                                      *)
(*   status: "idle", "running", "done" (run returned), "crashed";          *)
(*   halt: how the last run ended; retval: what it returned;               *)
(*   runner: who started the run, "script" (ScriptRunner) or "docommand",  *)
(*       and actor: the id of the object DoCommand executes for;           *)
(*   heap: the ExecutionState objects allocated by ACTION;                 *)
(*   actions: the Action contexts native routines handed to the engine;    *)
(*   invoked: number of native routine invocations that took effect, and  *)
(*       lastCall: the routine, arguments and result of the last one;      *)
(*   completed: number of DoCommand actions completed;                     *)
(*   resumes: number of runs started by DoCommand.                         *)
(***************************************************************************)
VARIABLES stack, returnOffsets, globalCount, savedState, program, context,
          insOff, ins, code, status, halt, retval, runner, actor,
          heap, actions, invoked, lastCall, completed, resumes,
          logEnabled, outer,
          listeners, pendingMessages, registrations, delivered,
          rounds, finishes, attacks, todo, set, result, data, cur, aborted

vars == <<stack, returnOffsets, globalCount, savedState, program, context,
          insOff, ins, code, status, halt, retval, runner, actor,
          heap, actions, invoked, lastCall, completed, resumes,
          logEnabled, outer,
          listeners, pendingMessages, registrations, delivered,
          rounds, finishes, attacks, todo, set, result, data, cur, aborted>>

(* The state outside the running machine and the script engine: the        *)
(* Script3 channel of the Logger, and the machines that are suspended in   *)
(* a routine call while the running one runs.                              *)
otherVars == <<logEnabled, outer, listeners, pendingMessages, registrations,
               delivered, rounds, finishes, attacks, todo, set, result, data, cur, aborted>>

(* The state of the components next to the script machine:                 *)
(*   the members of a MessageBus, with the addListener calls made so far   *)
(*       and the callbacks of the last update;                             *)
(*   the rounds of a Combat, with the rounds finishRound was called for;   *)
(*   the attack actions under execution (schedule, effects, completion)    *)
(*       and the calls the current frame has still to make;                *)
(*   a SmallSet<int, 2>, with what its last insert or erase returned;      *)
(*   the members of a TextBuffer, and whether the process has aborted in   *)
(*       one of its functions.                                             *)
busVars == <<listeners, pendingMessages, registrations, delivered>>
combatVars == <<rounds, finishes>>
attackVars == <<attacks, todo>>
setVars == <<set, result>>
textVars == <<data, cur, aborted>>
gameVars == <<busVars, combatVars, attackVars, setVars, textVars>>

machineVars == <<stack, returnOffsets, globalCount, savedState, program, context>>
engineVars == <<heap, actions, invoked, lastCall>>
vmVars == <<machineVars, engineVars, insOff, ins, code, status, halt, retval, runner,
            actor, completed, resumes, logEnabled, outer>>

(* Variant: the machine is constructed on the stacks of the machine that   *)
(* ran or is running.                                                      *)
NewMachineShared(p, ctx) ==
    [stack |-> stack, returnOffsets |-> returnOffsets, globalCount |-> 0,
     savedState |-> DefaultState, program |-> p, context |-> ctx]

(* The members of a newly constructed VirtualMachine.                      *)
NewMachine(p, ctx) ==
    [stack |-> <<>>, returnOffsets |-> <<>>, globalCount |-> 0,
     savedState |-> DefaultState, program |-> p, context |-> ctx]

(* Variant: the boundary is recorded after the locals are restored.        *)
RunPrologueBoundaryAtTop(m, h) ==
    IF m.context.savedState # 0 THEN
        LET saved == h[m.context.savedState]
        IN [m |-> [m EXCEPT !.stack = m.stack \o saved.globals \o saved.locals,
                            !.globalCount = Len(m.stack \o saved.globals \o saved.locals)],
            insOff |-> saved.insOffset]
    ELSE [m |-> m, insOff |-> kStartInstructionOffset]

(* The head of run(): restore the saved state of the context, if any.      *)
RunPrologue(m, h) ==
    IF m.context.savedState # 0 THEN
        LET saved == h[m.context.savedState]
        IN [m |-> [m EXCEPT !.stack = m.stack \o saved.globals \o saved.locals,
                            !.globalCount = Len(m.stack \o saved.globals)],
            insOff |-> saved.insOffset]
    ELSE [m |-> m, insOff |-> kStartInstructionOffset]

(* VirtualMachine(program, context).run() up to the main loop.             *)
StartMachine(p, ctx) ==
    LET r == RunPrologue(NewMachine(p, ctx), heap)
    IN /\ stack' = r.m.stack
       /\ returnOffsets' = r.m.returnOffsets
       /\ globalCount' = r.m.globalCount
       /\ savedState' = r.m.savedState
       /\ program' = r.m.program
       /\ context' = r.m.context
       /\ insOff' = r.insOff
       /\ ins' = NoIns

(* An operation with undefined behaviour: the process dies, or run comes   *)
(* back with whatever value.                                               *)
UndefinedOutcome ==
    \/ /\ status' = "crashed"
       /\ UNCHANGED retval
    \/ /\ status' = "done"
       /\ retval' \in {kFailure, 0, 1}

Unloaded(p) == [o \in Offsets(p) |-> NoIns]

(* ScriptRunner::run(resRef, args) *)
ScriptRunnerRun(p, args) ==
    /\ status = "idle"
    /\ runner' = "script"
    /\ actor' = 0
    /\ IF p = NullProgram THEN
           /\ status' = "done"
           /\ retval' = -1
           /\ halt' = "noprogram"
           /\ ins' = NoIns
           /\ UNCHANGED <<machineVars, insOff>>
       ELSE
           /\ StartMachine(p, Context(TheRoutines, 0, args))
           /\ status' = "running"
           /\ halt' = "none"
           /\ retval' = 0
    /\ UNCHANGED <<engineVars, code, completed, resumes, otherVars>>

(* Variant: an object kind takes any Object variable.                      *)
verifyTagOnly(kind, var) ==
    CASE kind \in {"Caller", "ClickingObject", "EnteringObject", "ExitingObject",
                   "LastClosedBy", "LastOpenedBy", "LastPerceived"} ->
            IF var.type # "Object" THEN "invalid_argument" ELSE "none"
      [] kind \in {"ScriptVar", "UserDefinedEventNumber", "LastPerceptionHeard",
                   "LastPerceptionInaudible", "LastPerceptionSeen",
                   "LastPerceptionVanished"} ->
            IF var.type # "Int" THEN "invalid_argument" ELSE "none"
      [] OTHER -> "logic_error"

(* Argument::verify: the exception it throws, "none" if it returns.        *)
verify(kind, var) ==
    CASE kind \in {"Caller", "ClickingObject", "EnteringObject", "ExitingObject",
                   "LastClosedBy", "LastOpenedBy", "LastPerceived"} ->
            IF var.type # "Object" \/ var.v = kObjectSelf THEN "invalid_argument" ELSE "none"
      [] kind \in {"ScriptVar", "UserDefinedEventNumber", "LastPerceptionHeard",
                   "LastPerceptionInaudible", "LastPerceptionSeen",
                   "LastPerceptionVanished"} ->
            IF var.type # "Int" THEN "invalid_argument" ELSE "none"
      [] OTHER -> "logic_error"

(* A caller of ScriptRunner::run constructs Argument(kind, var) and runs   *)
(* program p with it: the constructor calls verify(), whose exception      *)
(* leaves the constructor and the caller, so that run is not called.       *)
RunWithArgument(p, kind, var) ==
    IF verify(kind, var) = "none" THEN ScriptRunnerRun(p, <<Arg(kind, var)>>)
    ELSE /\ status = "idle"
         /\ status' = "failed"
         /\ halt' = verify(kind, var)
         /\ UNCHANGED <<machineVars, engineVars, insOff, ins, code, retval, runner,
                        actor, completed, resumes, otherVars>>

(* Variant: every Caller argument is overwritten, not only the first.      *)
RebindFromEvery(args, k, actorId) ==
    IF \E j \in k..Len(args) : args[j].kind = "Caller"
    THEN [j \in 1..Len(args) |->
            IF j >= k /\ args[j].kind = "Caller"
            THEN [args[j] EXCEPT !.var.v = actorId] ELSE args[j]]
    ELSE Append(args, Arg("Caller", ofObject(actorId)))

(* The Caller re-binding loop of DoCommandAction::execute.                 *)
RECURSIVE RebindFrom(_, _, _)
RebindFrom(args, k, actorId) ==
    IF k > Len(args) THEN Append(args, Arg("Caller", ofObject(actorId)))
    ELSE IF args[k].kind = "Caller" THEN [args EXCEPT ![k].var.v = actorId]
    ELSE RebindFrom(args, k + 1, actorId)

RebindCaller(args, actorId) == RebindFrom(args, 1, actorId)

(* DoCommandAction::execute for the action holding actions[k], up to the   *)
(* main loop of the machine it runs.                                       *)
DoCommandExecute(k, actorId) ==
    /\ status \in {"idle", "done"}
    /\ resumes < MaxResumes
    /\ resumes' = resumes + 1
    /\ k \in 1..Len(actions)
    /\ LET actionToDo == actions[k]
           executionCtx == [actionToDo EXCEPT !.args = RebindCaller(@, actorId)]
           p == heap[actionToDo.savedState].program
       IN /\ StartMachine(p, executionCtx)
          /\ runner' = "docommand"
          /\ actor' = actorId
          /\ IF p = NullProgram THEN
                 /\ UndefinedOutcome
                 /\ halt' = "ub"
                 /\ completed' = IF status' = "done" THEN completed + 1 ELSE completed
             ELSE
                 /\ status' = "running"
                 /\ halt' = "none"
                 /\ retval' = 0
                 /\ UNCHANGED completed
    /\ UNCHANGED <<engineVars, code, otherVars>>

World ==
    [stack |-> stack, returnOffsets |-> returnOffsets, globalCount |-> globalCount,
     nextInstruction |-> insOff, savedState |-> savedState, program |-> program,
     context |-> context, heap |-> heap, actions |-> actions, invoked |-> invoked,
     lastCall |-> lastCall, logEnabled |-> logEnabled,
     exc |-> FALSE, ub |-> FALSE]

WithinBounds(w) ==
    /\ Len(w.stack) <= MaxStack
    /\ Len(w.returnOffsets) <= MaxRet
    /\ Len(w.heap) <= MaxActions
    /\ w.invoked <= MaxInvoked

Completes == IF runner = "docommand" THEN completed + 1 ELSE completed

(* Variant: the exception is swallowed and the loop goes on.               *)
HandlerOutcomeSwallow(w) == IF w.ub THEN "ub" ELSE "continue"

(* What the main loop does after the handler: halt on an exception, else   *)
(* go on at _nextInstruction.                                              *)
HandlerOutcome(w) == IF w.ub THEN "ub" ELSE IF w.exc THEN "halt" ELSE "continue"

(* One iteration of the main loop of run(), for the instruction i the      *)
(* program holds at insOff.                                                *)
Step(i, rv, th) ==
    /\ status = "running"
    /\ insOff < ProgramLength(program)
    /\ ins' = i
    /\ code' = [code EXCEPT ![program][insOff] = i]
    /\ UNCHANGED <<program, context, runner, actor, resumes, otherVars>>
    /\ IF i.type \notin Handled THEN
           /\ status' = "done"
           /\ retval' = -1
           /\ halt' = "unimplemented"
           /\ completed' = Completes
           /\ UNCHANGED <<stack, returnOffsets, globalCount, savedState, insOff, engineVars>>
       ELSE
           LET logged == logOperands([World EXCEPT !.nextInstruction = i.nextOffset],
                                     LoggedOperands(i))
               w == IF Stopped(logged) THEN logged ELSE Dispatch(logged, i, rv, th)
           IN /\ WithinBounds(w)
              /\ stack' = w.stack
              /\ returnOffsets' = w.returnOffsets
              /\ globalCount' = w.globalCount
              /\ savedState' = w.savedState
              /\ heap' = w.heap
              /\ actions' = w.actions
              /\ invoked' = w.invoked
              /\ lastCall' = w.lastCall
              /\ IF HandlerOutcome(w) = "ub" THEN
                     /\ UndefinedOutcome
                     /\ halt' = "ub"
                     /\ completed' = IF status' = "done" THEN Completes ELSE completed
                     /\ UNCHANGED insOff
                 ELSE IF HandlerOutcome(w) = "halt" THEN
                     /\ status' = "done"
                     /\ retval' = -1
                     /\ halt' = "error"
                     /\ completed' = Completes
                     /\ UNCHANGED insOff
                 ELSE
                     /\ insOff' = w.nextInstruction
                     /\ UNCHANGED <<status, retval, halt, completed>>

(* Variant: the tag of the top slot is not looked at.                      *)
ReturnResultAnyTag(stk) ==
    IF stk # <<>> THEN Last(stk).v ELSE -1

(* The end of run(): the loop is left and the result returned.             *)
ReturnResult(stk) ==
    IF stk # <<>> /\ Last(stk).type = "Int" THEN Last(stk).v ELSE -1

Finish ==
    /\ status = "running"
    /\ insOff >= ProgramLength(program)
    /\ status' = "done"
    /\ halt' = "normal"
    /\ retval' = ReturnResult(stack)
    /\ completed' = Completes
    /\ UNCHANGED <<machineVars, engineVars, insOff, ins, code, runner, actor, resumes,
                   otherVars>>

Init ==
    /\ stack = <<>>
    /\ returnOffsets = <<>>
    /\ globalCount = 0
    /\ savedState = DefaultState
    /\ program = NullProgram
    /\ context = Context(TheRoutines, 0, <<>>)
    /\ insOff = kStartInstructionOffset
    /\ ins = NoIns
    /\ code = [p \in Programs |-> Unloaded(p)]
    /\ status = "idle"
    /\ halt = "none"
    /\ retval = 0
    /\ runner = "script"
    /\ actor = 0
    /\ heap = <<>>
    /\ actions = <<>>
    /\ invoked = 0
    /\ lastCall = NoCall
    /\ completed = 0
    /\ resumes = 0
    /\ logEnabled = FALSE
    /\ outer = <<>>
    /\ listeners = [pattern \in {} |-> <<>>]
    /\ pendingMessages = <<>>
    /\ registrations = <<>>
    /\ delivered = <<>>
    /\ rounds = <<>>
    /\ finishes = <<>>
    /\ attacks = <<>>
    /\ todo = [order |-> "none", steps |-> <<>>]
    /\ data = <<>>
    /\ cur = 0
    /\ aborted = FALSE
    /\ set = [begin |-> <<>>, size |-> 0, capacity |-> -Capacity]
    /\ result = [call |-> "none"]

(* _program->getInstruction(insOff) *)
getInstruction(p, o) ==
    IF code[p][o] # NoIns THEN {code[p][o]} ELSE InstructionsAt(p, o)

RunStep ==
    /\ status = "running"
    /\ insOff < ProgramLength(program)
    /\ \E i \in getInstruction(program, insOff) :
        \E rv \in (IF Routine(i.routine).mayThrow THEN RoutineResults ELSE {0}) :
            \E th \in (IF Routine(i.routine).mayThrow THEN BOOLEAN ELSE {FALSE}) :
                Step(i, rv, th)

Next ==
    \/ \E s \in Scripts : ScriptRunnerRun(s.program, s.args)
    \/ \E k \in 1..MaxActions, actorId \in Actors : DoCommandExecute(k, actorId)
    \/ RunStep
    \/ Finish

Spec == Init /\ [][Next]_vars

(* The runs of program 3. *)
NextOps ==
    \/ \E s \in OperationScripts : ScriptRunnerRun(s.program, s.args)
    \/ RunStep
    \/ Finish

SpecOps == Init /\ [][NextOps]_vars

(* The runs of program 6 and of the commands it defers. *)
NextResume ==
    \/ ScriptRunnerRun(6, <<>>)
    \/ \E k \in 1..MaxActions, actorId \in Actors : DoCommandExecute(k, actorId)
    \/ RunStep
    \/ Finish

SpecResume == Init /\ [][NextResume]_vars

(* The runs of programs 4 and 5. *)
NextArith ==
    \/ \E p \in {4, 5} : ScriptRunnerRun(p, <<>>)
    \/ RunStep
    \/ Finish

SpecArith == Init /\ [][NextArith]_vars

(* A native routine the running machine has called executes, before it     *)
(* returns, the command actions[k] for an actor: DoCommandAction::execute  *)
(* constructs and runs a second machine while the first is suspended in    *)
(* executeACTION.  The routine is routine 1, which takes no operand from   *)
(* the stack and returns nothing, so the members of the suspended machine  *)
(* are those it has after the instruction.                                 *)
NestedExecute(k, actorId) ==
    /\ status = "running" /\ halt = "none"
    /\ ins.type = "ACTION" /\ ins.routine = 1 /\ lastCall.routine = 1
    /\ Len(outer) < MaxNest
    /\ resumes < MaxResumes
    /\ resumes' = resumes + 1
    /\ k \in 1..Len(actions)
    /\ outer' = Append(outer, [stack |-> stack, returnOffsets |-> returnOffsets,
                               globalCount |-> globalCount, savedState |-> savedState,
                               program |-> program, context |-> context,
                               insOff |-> insOff, ins |-> ins, runner |-> runner,
                               actor |-> actor])
    /\ LET actionToDo == actions[k]
           executionCtx == [actionToDo EXCEPT !.args = RebindCaller(@, actorId)]
           p == heap[actionToDo.savedState].program
       IN /\ StartMachine(p, executionCtx)
          /\ runner' = "docommand"
          /\ actor' = actorId
          /\ IF p = NullProgram THEN
                 /\ UndefinedOutcome
                 /\ halt' = "ub"
                 /\ completed' = IF status' = "done" THEN completed + 1 ELSE completed
             ELSE
                 /\ halt' = "none"
                 /\ UNCHANGED <<status, retval, completed>>
    /\ UNCHANGED <<engineVars, code, logEnabled, gameVars>>

(* run() of the second machine has returned into the routine, and the      *)
(* routine into the machine that called it.                                *)
NestedReturn ==
    /\ status = "done"
    /\ outer # <<>>
    /\ LET m == Last(outer)
       IN /\ stack' = m.stack
          /\ returnOffsets' = m.returnOffsets
          /\ globalCount' = m.globalCount
          /\ savedState' = m.savedState
          /\ program' = m.program
          /\ context' = m.context
          /\ insOff' = m.insOff
          /\ ins' = m.ins
          /\ runner' = m.runner
          /\ actor' = m.actor
    /\ outer' = Front(outer)
    /\ status' = "running"
    /\ halt' = "none"
    /\ retval' = 0
    /\ UNCHANGED <<engineVars, code, completed, resumes, logEnabled, gameVars>>

(* The runs of program 2, the commands they defer, run after the script or *)
(* from within a routine call.                                             *)
NextIso ==
    \/ ScriptRunnerRun(2, <<Arg("Caller", ofObject(5))>>)
    \/ \E k \in 1..MaxActions, actorId \in Actors : DoCommandExecute(k, actorId)
    \/ \E k \in 1..MaxActions, actorId \in Actors : NestedExecute(k, actorId)
    \/ NestedReturn
    \/ RunStep
    \/ Finish

SpecIso == Init /\ [][NextIso]_vars

(* Logger: the Script3 channel is enabled. *)
EnableChannel ==
    /\ status = "idle"
    /\ ~logEnabled
    /\ logEnabled' = TRUE
    /\ UNCHANGED <<machineVars, engineVars, insOff, ins, code, status, halt, retval,
                   runner, actor, completed, resumes, outer, gameVars>>

(* The runs of program 3 with the Script3 channel enabled. *)
NextTrace ==
    \/ EnableChannel
    \/ logEnabled /\ \E s \in OperationScripts : ScriptRunnerRun(s.program, s.args)
    \/ RunStep
    \/ Finish

SpecTrace == Init /\ [][NextTrace]_vars

(* The runs of program 2 with one argument constructed for the run, and    *)
(* the commands they defer.                                                *)
ArgKinds ==
    {"Caller", "ClickingObject", "EnteringObject", "ExitingObject", "LastClosedBy",
     "LastOpenedBy", "LastPerceived", "ScriptVar", "UserDefinedEventNumber",
     "LastPerceptionHeard", "LastPerceptionInaudible", "LastPerceptionSeen",
     "LastPerceptionVanished"}

NextArg ==
    \/ \E kind \in ArgKinds, var \in {ofInt(1), ofObject(5), ofObject(kObjectSelf), ofNull} :
            RunWithArgument(2, kind, var)
    \/ \E k \in 1..MaxActions, actorId \in Actors : DoCommandExecute(k, actorId)
    \/ RunStep
    \/ Finish

SpecArg == Init /\ [][NextArg]_vars

(***************************************************************************)
(* MessageBus (messagebus.h, part_005).  _listeners maps a pattern to the  *)
(* vector of its listeners, _pendingMessages is the queue of the messages  *)
(* added and not yet delivered.  registrations is the list of the          *)
(* addListener calls made, delivered the list of the onMessage callbacks   *)
(* of the last call, in the order they were made.                          *)
(***************************************************************************)
(* addListener that appends without looking for the listener id. *)
addListenerAppend(listenerId, pattern, number) ==
    /\ Len(registrations) < MaxRegistrations
    /\ listeners' = [q \in DOMAIN listeners \cup {pattern} |->
                        IF q # pattern THEN listeners[q]
                        ELSE IF q \in DOMAIN listeners
                             THEN Append(listeners[q], [id |-> listenerId, number |-> number])
                             ELSE <<[id |-> listenerId, number |-> number]>>]
    /\ registrations' = Append(registrations, [id |-> listenerId, pattern |-> pattern,
                                               number |-> number])
    /\ delivered' = <<>>
    /\ UNCHANGED <<vmVars, pendingMessages, combatVars, attackVars, setVars, textVars>>

(* MessageBus::addListener: _listeners[pattern] is created empty when the  *)
(* pattern is new; the number of the first listener of that id is          *)
(* replaced, a listener of a new id is pushed back.                        *)
addListener(listenerId, pattern, number) ==
    /\ Len(registrations) < MaxRegistrations
    /\ LET vec == IF pattern \in DOMAIN listeners THEN listeners[pattern] ELSE <<>>
           found == {k \in 1..Len(vec) : vec[k].id = listenerId}
           first == CHOOSE k \in found : \A j \in found : k <= j
       IN listeners' = [q \in DOMAIN listeners \cup {pattern} |->
                           IF q # pattern THEN listeners[q]
                           ELSE IF found # {}
                                THEN [vec EXCEPT ![first].number = number]
                                ELSE Append(vec, [id |-> listenerId, number |-> number])]
    /\ registrations' = Append(registrations, [id |-> listenerId, pattern |-> pattern,
                                               number |-> number])
    /\ delivered' = <<>>
    /\ UNCHANGED <<vmVars, pendingMessages, combatVars, attackVars, setVars, textVars>>

(* MessageBus::addMessage *)
addMessage(speakerId, pattern, volume) ==
    /\ Len(pendingMessages) < MaxMessages
    /\ pendingMessages' = Append(pendingMessages, [speakerId |-> speakerId, str |-> pattern,
                                                   volume |-> volume])
    /\ delivered' = <<>>
    /\ UNCHANGED <<vmVars, listeners, registrations, combatVars, attackVars, setVars, textVars>>

(* The loop of update that takes the messages from the back of the queue. *)
RECURSIVE onMessagesNewestFirst(_, _)
onMessagesNewestFirst(msgs, ls) ==
    IF msgs = <<>> THEN <<>>
    ELSE LET msg == msgs[Len(msgs)]
             vec == IF msg.str \in DOMAIN ls THEN ls[msg.str] ELSE <<>>
         IN [k \in 1..Len(vec) |-> [speakerId |-> msg.speakerId, listenerId |-> vec[k].id,
                                    number |-> vec[k].number, volume |-> msg.volume]]
            \o onMessagesNewestFirst(SubSeq(msgs, 1, Len(msgs) - 1), ls)

(* The loop of MessageBus::update: the onMessage calls made for the        *)
(* messages msgs, front first, each to the listeners of _listeners[msg.str]*)
(* from the first to the last.                                             *)
RECURSIVE onMessages(_, _)
onMessages(msgs, ls) ==
    IF msgs = <<>> THEN <<>>
    ELSE LET msg == Head(msgs)
             vec == IF msg.str \in DOMAIN ls THEN ls[msg.str] ELSE <<>>
         IN [k \in 1..Len(vec) |-> [speakerId |-> msg.speakerId, listenerId |-> vec[k].id,
                                    number |-> vec[k].number, volume |-> msg.volume]]
            \o onMessages(Tail(msgs), ls)

(* MessageBus::update with a callback that records its arguments;          *)
(* _listeners[msg.str] creates the empty vector of a pattern nobody        *)
(* listens to.                                                             *)
MessageBusUpdate ==
    /\ delivered' = onMessages(pendingMessages, listeners)
    /\ listeners' = [q \in DOMAIN listeners
                           \cup {pendingMessages[k].str : k \in 1..Len(pendingMessages)} |->
                        IF q \in DOMAIN listeners THEN listeners[q] ELSE <<>>]
    /\ pendingMessages' = <<>>
    /\ UNCHANGED <<vmVars, registrations, combatVars, attackVars, setVars, textVars>>

(* The calls made on the bus: the registrations of the tests, and a        *)
(* message for each of their two patterns.                                 *)
NextBus ==
    \/ \E l \in {<<10, "foo", 1>>, <<11, "foo", 1>>, <<11, "bar", 2>>, <<10, "foo", 2>>} :
           addListener(l[1], l[2], l[3])
    \/ \E m \in {<<20, "foo", "Shout">>, <<21, "bar", "Talk">>} :
           addMessage(m[1], m[2], m[3])
    \/ MessageBusUpdate

SpecBus == Init /\ [][NextBus]_vars

(* A callback that calls addMessage while update is running: the listener  *)
(* replier answers what it hears under number 1 with a "bar" of its own.   *)
RECURSIVE addedBy(_, _)
addedBy(replier, calls) ==
    IF calls = <<>> THEN <<>>
    ELSE (IF Head(calls).listenerId = replier /\ Head(calls).number = 1
          THEN <<[speakerId |-> replier, str |-> "bar", volume |-> "Talk"]>>
          ELSE <<>>) \o addedBy(replier, Tail(calls))

(* The loop of update over a copy of the queue taken when update starts:   *)
(* what the callbacks add stays pending.                                   *)
RECURSIVE updateLoopSnapshot(_, _, _)
updateLoopSnapshot(queue, ls, replier) ==
    IF queue = <<>> THEN [calls |-> <<>>, msgs |-> <<>>, pending |-> <<>>]
    ELSE LET msg == Head(queue)
             vec == IF msg.str \in DOMAIN ls THEN ls[msg.str] ELSE <<>>
             calls == [k \in 1..Len(vec) |->
                          [speakerId |-> msg.speakerId, listenerId |-> vec[k].id,
                           number |-> vec[k].number, volume |-> msg.volume]]
             rest == updateLoopSnapshot(Tail(queue), ls, replier)
         IN [calls |-> calls \o rest.calls,
             msgs |-> <<msg>> \o rest.msgs,
             pending |-> addedBy(replier, calls) \o rest.pending]

(* The loop of MessageBus::update with that callback: msg is the front of  *)
(* the queue, the callbacks push to the back of the queue while msg is     *)
(* still its front, then the front is popped, until the queue is empty.    *)
(* calls are the onMessage calls made, msgs the messages taken from the    *)
(* queue, pending the queue when the loop ends.                            *)
RECURSIVE updateLoop(_, _, _)
updateLoop(queue, ls, replier) ==
    IF queue = <<>> THEN [calls |-> <<>>, msgs |-> <<>>, pending |-> queue]
    ELSE LET msg == Head(queue)
             vec == IF msg.str \in DOMAIN ls THEN ls[msg.str] ELSE <<>>
             calls == [k \in 1..Len(vec) |->
                          [speakerId |-> msg.speakerId, listenerId |-> vec[k].id,
                           number |-> vec[k].number, volume |-> msg.volume]]
             rest == updateLoop(Tail(queue \o addedBy(replier, calls)), ls, replier)
         IN [calls |-> calls \o rest.calls,
             msgs |-> <<msg>> \o rest.msgs,
             pending |-> rest.pending]

(* MessageBus::update with the callback that answers. *)
MessageBusUpdateReplying(replier) ==
    LET done == updateLoop(pendingMessages, listeners, replier)
    IN /\ delivered' = done.calls
       /\ listeners' = [q \in DOMAIN listeners
                              \cup {done.msgs[k].str : k \in 1..Len(done.msgs)} |->
                           IF q \in DOMAIN listeners THEN listeners[q] ELSE <<>>]
       /\ pendingMessages' = done.pending
       /\ UNCHANGED <<vmVars, registrations, combatVars, attackVars, setVars, textVars>>

(* The calls made on the bus, with updates whose callback answers. *)
NextReply ==
    \/ \E l \in {<<10, "foo", 1>>, <<11, "foo", 1>>, <<11, "bar", 2>>, <<10, "foo", 2>>} :
           addListener(l[1], l[2], l[3])
    \/ \E m \in {<<20, "foo", "Shout">>, <<21, "bar", "Talk">>} :
           addMessage(m[1], m[2], m[3])
    \/ MessageBusUpdate
    \/ \E replier \in {10, 11} : MessageBusUpdateReplying(replier)

SpecReply == Init /\ [][NextReply]_vars

(***************************************************************************)
(* Combat (combat.h, commonactions.cpp).  _rounds is the queue of the      *)
(* rounds from the oldest to the newest; a round holds its actions with    *)
(* attacker and target, its state, the duel flag and its time.  An Action  *)
(* is its identity and its target (getTarget: the target of an attack or   *)
(* feat, 0 for the null pointer of any other action).  Times are counted   *)
(* in half seconds, so that half a round lasts kRoundDuration of them.      *)
(***************************************************************************)
kRoundDuration == 3

(* findRoundForAction: the first round holding the action for the          *)
(* attacker, 0 for the null pointer.                                       *)
findRoundForAction(action, attacker) ==
    LET holding == {r \in 1..Len(rounds) :
                       \E k \in 1..Len(rounds[r].actions) :
                          /\ rounds[r].actions[k].attacker = attacker
                          /\ rounds[r].actions[k].action = action}
    IN IF holding = {} THEN 0 ELSE CHOOSE r \in holding : \A q \in holding : r <= q

(* tryAppendAction that appends to a round of any size. *)
tryAppendActionAnySize(action, attacker, target) ==
    LET open == {r \in 1..Len(rounds) :
                    /\ rounds[r].state # "Finished"
                    /\ \E k \in 1..Len(rounds[r].actions) :
                          /\ rounds[r].actions[k].attacker = target
                          /\ rounds[r].actions[k].target = attacker}
    IN IF open = {} THEN 0 ELSE CHOOSE r \in open : \A q \in open : r <= q

(* tryAppendAction: the first round that is not Finished, holds an action  *)
(* with attacker and target reversed and no more than one action; 0 when   *)
(* there is none.                                                          *)
tryAppendAction(action, attacker, target) ==
    LET open == {r \in 1..Len(rounds) :
                    /\ rounds[r].state # "Finished"
                    /\ \E k \in 1..Len(rounds[r].actions) :
                          /\ rounds[r].actions[k].attacker = target
                          /\ rounds[r].actions[k].target = attacker
                    /\ ~(Len(rounds[r].actions) > 1)}
    IN IF open = {} THEN 0 ELSE CHOOSE r \in open : \A q \in open : r <= q

(* Combat::addAction for the actor of id actorId: the rounds after the     *)
(* call and the place of the round it returns.                             *)
addedAction(action, actorId) ==
    LET target == action.target
        found == findRoundForAction(action, actorId)
        round == IF target # 0 THEN tryAppendAction(action, actorId, target) ELSE 0
        roundAction == [action |-> action, attacker |-> actorId,
                        target |-> IF target # 0 THEN target ELSE kObjectInvalid]
    IN IF found # 0 THEN
           [rounds |-> rounds, round |-> found]
       ELSE IF round # 0 THEN
           [rounds |-> [rounds EXCEPT ![round] =
                           [@ EXCEPT !.actions = Append(@, roundAction), !.duel = TRUE]],
            round |-> round]
       ELSE
           [rounds |-> Append(rounds, [actions |-> <<roundAction>>, state |-> "Pending",
                                       duel |-> FALSE, time |-> 0]),
            round |-> Len(rounds) + 1]

addAction(action, actorId) ==
    /\ rounds' = addedAction(action, actorId).rounds
    /\ UNCHANGED <<vmVars, busVars, finishes, attackVars, setVars, textVars>>

(* Variant: the cases of the switch fall through to the next one.          *)
updateRoundFallThrough(round, dt) ==
    LET time == round.time + dt
        first == IF round.state = "Pending" THEN "FirstAction" ELSE round.state
        second == IF first = "FirstAction" /\ time >= kRoundDuration
                  THEN "SecondAction" ELSE first
    IN [round EXCEPT !.time = time,
                     !.state = IF second = "SecondAction" /\ time >= 2 * kRoundDuration
                               THEN "Finished" ELSE second]

(* Combat::updateRound; finishRound changes the participants only. *)
updateRound(round, dt) ==
    LET time == round.time + dt
    IN [round EXCEPT !.time = time,
                     !.state = CASE @ = "Pending" -> "FirstAction"
                                 [] @ = "FirstAction" /\ time >= kRoundDuration -> "SecondAction"
                                 [] @ = "SecondAction" /\ time >= 2 * kRoundDuration -> "Finished"
                                 [] OTHER -> @]

(* The rounds for which an update by dt calls finishRound, in the order    *)
(* of the calls: updateRound calls it where it sets the state Finished.    *)
finishRound(dt) ==
    SelectSeq([r \in 1..Len(rounds) |-> r],
              LAMBDA r : /\ rounds[r].state = "SecondAction"
                         /\ updateRound(rounds[r], dt).state = "Finished")

(* Combat::update; finishes records the calls of finishRound. *)
CombatUpdate(dt) ==
    /\ \A r \in 1..Len(rounds) : rounds[r].time + dt <= MaxRoundTime
    /\ rounds' = [r \in 1..Len(rounds) |-> updateRound(rounds[r], dt)]
    /\ finishes' = finishes \o finishRound(dt)
    /\ UNCHANGED <<vmVars, busVars, attackVars, setVars, textVars>>

(* An attack of creature 10 on 11, two attacks of 11 on 10 and one of 12   *)
(* on 10, an action of 10 without target, and frames of half a second and  *)
(* of a second and a half.                                                 *)
NextCombat ==
    \/ \E a \in {<<1, 10, 11>>, <<2, 11, 10>>, <<3, 11, 10>>, <<4, 12, 10>>, <<5, 10, 0>>} :
          addAction([id |-> a[1], target |-> a[3]], a[2])
    \/ \E dt \in {1, 3} : CombatUpdate(dt)

SpecCombat == Init /\ [][NextCombat]_vars

(***************************************************************************)
(* Attack actions.  attacks holds the AttackObjectAction objects that have *)
(* been given to creatures: the action (identity and target), its actor,   *)
(* its AttackSchedule (_state, _time), the number of calls of the schedule *)
(* that returned Attack and Damage, and the completed flag of the action.  *)
(* A frame (Game::update) executes every action that is not completed and  *)
(* updates the combat rounds; todo holds the order of the frames and the   *)
(* calls of the current frame that are still to be made.  The target is    *)
(* alive and within reach, so that execute gets to the schedule.           *)
(***************************************************************************)
kAttackDamageDelay == 2

(* Variant: every action of a round is allowed during FirstAction only.    *)
canExecuteFirstOnly(round, action) ==
    /\ \E i \in 1..Len(round.actions) : round.actions[i].action = action
    /\ round.state = "FirstAction"

(* CombatRound::canExecute *)
canExecute(round, action) ==
    LET holding == {i \in 1..Len(round.actions) : round.actions[i].action = action}
    IN /\ holding # {}
       /\ LET i == CHOOSE i \in holding : \A j \in holding : i <= j
          IN round.state = <<"FirstAction", "SecondAction">>[i]

(* Variant: the schedule stays in Attack until the round has gone on.      *)
AttackScheduleUpdateRepeat(schedule, round, action, dt) ==
    LET time == schedule.time + dt
    IN [state |-> CASE schedule.state = "WaitAttack" ->
                         IF canExecute(round, action) THEN "Attack" ELSE "WaitAttack"
                    [] schedule.state = "Attack" ->
                         IF canExecute(round, action) THEN "Attack" ELSE "WaitDamage"
                    [] schedule.state = "WaitDamage" ->
                         IF time >= kAttackDamageDelay THEN "Damage" ELSE "WaitDamage"
                    [] schedule.state = "Damage" -> "WaitFinish"
                    [] schedule.state = "WaitFinish" ->
                         IF round.state = "Finished" THEN "Finish" ELSE "WaitFinish"
                    [] OTHER -> schedule.state,
        time |-> IF time > kAttackDamageDelay THEN kAttackDamageDelay ELSE time]

(* AttackSchedule::update: the schedule after the call; its state is the   *)
(* value returned.  _time is compared with kAttackDamageDelay only, so a   *)
(* greater value is kept as kAttackDamageDelay.                            *)
AttackScheduleUpdate(schedule, round, action, dt) ==
    LET time == schedule.time + dt
    IN [state |-> CASE schedule.state = "WaitAttack" ->
                         IF canExecute(round, action) THEN "Attack" ELSE "WaitAttack"
                    [] schedule.state = "Attack" -> "WaitDamage"
                    [] schedule.state = "WaitDamage" ->
                         IF time >= kAttackDamageDelay THEN "Damage" ELSE "WaitDamage"
                    [] schedule.state = "Damage" -> "WaitFinish"
                    [] schedule.state = "WaitFinish" ->
                         IF round.state = "Finished" THEN "Finish" ELSE "WaitFinish"
                    [] OTHER -> schedule.state,
        time |-> IF time > kAttackDamageDelay THEN kAttackDamageDelay ELSE time]

(* A creature is given an attack action (the constructor of                *)
(* AttackObjectAction and of its AttackSchedule).                          *)
StartAttack(action, actorId) ==
    /\ todo.steps = <<>>
    /\ \A k \in 1..Len(attacks) : attacks[k].action # action /\ attacks[k].actor # actorId
    /\ attacks' = Append(attacks, [action |-> action, actor |-> actorId,
                                   schedule |-> [state |-> "WaitAttack", time |-> 0],
                                   attacked |-> 0, damaged |-> 0, completed |-> FALSE])
    /\ UNCHANGED <<vmVars, busVars, combatVars, todo, setVars, textVars>>

(* A frame of dt begins: the calls it is going to make, the actions of the *)
(* module first (as Game::update makes them) or the combat rounds first.   *)
(* todo.order is the order of the frames so far, "mixed" once two frames   *)
(* have differed in their order.                                           *)
BeginFrame(dt, order) ==
    /\ todo.steps = <<>>
    /\ LET executes == SelectSeq([k \in 1..Len(attacks) |-> [op |-> "execute", k |-> k, dt |-> dt]],
                                 LAMBDA step : ~attacks[step.k].completed)
           update == <<[op |-> "update", k |-> 0, dt |-> dt]>>
       IN todo' = [order |-> IF todo.order \in {"none", order} THEN order ELSE "mixed",
                   steps |-> IF order = "module" THEN executes \o update ELSE update \o executes]
    /\ UNCHANGED <<vmVars, busVars, combatVars, attacks, setVars, textVars>>

(* AttackObjectAction::execute for the next action of the frame.          *)
AttackObjectExecute ==
    /\ todo.steps # <<>>
    /\ Head(todo.steps).op = "execute"
    /\ LET k == Head(todo.steps).k
           self == attacks[k]
           added == addedAction(self.action, self.actor)
           round == added.rounds[added.round]
           schedule == AttackScheduleUpdate(self.schedule, round, self.action,
                                            Head(todo.steps).dt)
       IN /\ rounds' = added.rounds
          /\ attacks' = [attacks EXCEPT ![k] =
                [@ EXCEPT !.schedule = schedule,
                          !.attacked = @ + (IF schedule.state = "Attack" THEN 1 ELSE 0),
                          !.damaged = @ + (IF schedule.state = "Damage" THEN 1 ELSE 0),
                          !.completed = (schedule.state = "Finish")]]
    /\ todo' = [todo EXCEPT !.steps = Tail(@)]
    /\ UNCHANGED <<vmVars, busVars, finishes, setVars, textVars>>

(* Combat::update as the call of the frame.  The time of a round is        *)
(* compared with half the round duration and the round duration only, so   *)
(* a greater value is kept as the round duration (2 * kRoundDuration half  *)
(* seconds) and the frames can go on for ever.                             *)
FrameCombatUpdate ==
    /\ todo.steps # <<>>
    /\ Head(todo.steps).op = "update"
    /\ LET dt == Head(todo.steps).dt
       IN /\ rounds' = [r \in 1..Len(rounds) |->
                          [updateRound(rounds[r], dt) EXCEPT
                              !.time = IF @ > 2 * kRoundDuration
                                       THEN 2 * kRoundDuration ELSE @]]
          /\ finishes' = finishes \o finishRound(dt)
    /\ todo' = [todo EXCEPT !.steps = Tail(@)]
    /\ UNCHANGED <<vmVars, busVars, attacks, setVars, textVars>>

(* Creature 10 attacks 11 and 11 attacks 10, each from some frame on (in   *)
(* the round of the other or, when that round is full or Finished, in a    *)
(* round of its own); the frames last half a second or a second and a      *)
(* half.                                                                   *)
NextAttack ==
    \/ \E a \in {<<1, 10, 11>>, <<2, 11, 10>>} :
          StartAttack([id |-> a[1], target |-> a[3]], a[2])
    \/ \E dt \in {1, 3}, order \in {"module", "combat"} : BeginFrame(dt, order)
    \/ AttackObjectExecute
    \/ FrameCombatUpdate

SpecAttack == Init /\ [][NextAttack]_vars

(* The frames go on: Game::update is called for every frame and makes      *)
(* every call of the frame.                                                *)
SpecAttackFair ==
    /\ SpecAttack
    /\ WF_vars(\E dt \in {1, 3}, order \in {"module", "combat"} : BeginFrame(dt, order))
    /\ WF_vars(AttackObjectExecute)
    /\ WF_vars(FrameCombatUpdate)

(***************************************************************************)
(* SmallSet<int, 2> (smallset.h) on its ISmallVector (stringutil.h).       *)
(* set.begin is the storage _begin points to, as far as it has been        *)
(* written since it was allocated: the set.size elements and, behind them, *)
(* the values erased elements have left; set.capacity is _capacity,        *)
(* negative while the storage is the co-allocated one.  Iterators are      *)
(* positions from begin(), end() being size + 1.                           *)
(***************************************************************************)
isSmall(s) == s.capacity <= 0

capacity(s) == IF isSmall(s) THEN -s.capacity ELSE s.capacity

(* ISmallVector::grow with reserve, allocHeap and reallocHeap: allocHeap   *)
(* copies the elements to new storage, realloc keeps the storage as it is. *)
grow(s, new_cap) ==
    IF capacity(s) >= new_cap THEN s
    ELSE LET grow_cap == (capacity(s) * 3) \div 2
             cap == IF grow_cap > new_cap THEN grow_cap ELSE new_cap
         IN IF isSmall(s) THEN [s EXCEPT !.begin = SubSeq(@, 1, s.size), !.capacity = cap]
            ELSE [s EXCEPT !.capacity = cap]

(* ISmallVector::insert before the position insertBefore; push_back is the *)
(* insertion before end().                                                 *)
BaseInsert(s, insertBefore, value) ==
    LET g == grow(s, s.size + 1)
    IN [g EXCEPT !.begin = SubSeq(@, 1, insertBefore - 1) \o <<value>>
                           \o SubSeq(@, insertBefore, g.size)
                           \o SubSeq(@, g.size + 2, Len(@)),
                 !.size = @ + 1]

(* ISmallVector::erase: the elements behind eraseIt move one place down,   *)
(* the place of the last one keeps its value.                              *)
BaseErase(s, eraseIt) ==
    [s EXCEPT !.begin = SubSeq(@, 1, eraseIt - 1) \o SubSeq(@, eraseIt + 1, s.size)
                        \o SubSeq(@, s.size, Len(@)),
              !.size = @ - 1]

(* std::find and std::lower_bound over [begin(), end()). *)
stdFind(s, value) ==
    LET at == {k \in 1..s.size : s.begin[k] = value}
    IN IF at = {} THEN s.size + 1 ELSE CHOOSE k \in at : \A j \in at : k <= j

lower_bound(s, value) ==
    LET at == {k \in 1..s.size : ~(s.begin[k] < value)}
    IN IF at = {} THEN s.size + 1 ELSE CHOOSE k \in at : \A j \in at : k <= j

(* *lowerIt != value.  At end() the read is of the value an erased element *)
(* has left there; behind the written storage it is of an uninitialized or *)
(* unallocated place, and either outcome is possible.                      *)
Differs(s, lowerIt, value) ==
    IF lowerIt <= Len(s.begin) THEN {s.begin[lowerIt] # value} ELSE {TRUE, FALSE}

(* std::sort of the elements. *)
RECURSIVE Sorted(_)
Sorted(elements) ==
    IF elements = <<>> THEN <<>>
    ELSE LET least == CHOOSE k \in 1..Len(elements) :
                         \A j \in 1..Len(elements) : ~(elements[j] < elements[k])
         IN <<elements[least]>>
            \o Sorted(SubSeq(elements, 1, least - 1) \o SubSeq(elements, least + 1, Len(elements)))

(* ISmallSet::find *)
find(s, value) ==
    IF isSmall(s) THEN stdFind(s, value)
    ELSE LET lowerIt == lower_bound(s, value)
         IN IF lowerIt <= s.size /\ s.begin[lowerIt] = value THEN lowerIt ELSE s.size + 1

(* ISmallSet::insert; result is the pair it returns. *)
insert(value) ==
    /\ IF isSmall(set) THEN
           LET foundIt == stdFind(set, value)
               pushed == BaseInsert(set, set.size + 1, value)
               sorted == [pushed EXCEPT !.begin = Sorted(@)]
           IN IF foundIt # set.size + 1 THEN
                  /\ set' = set
                  /\ result' = [call |-> "insert", value |-> value,
                                first |-> foundIt, second |-> FALSE]
              ELSE IF isSmall(pushed) THEN
                  /\ set' = pushed
                  /\ result' = [call |-> "insert", value |-> value,
                                first |-> pushed.size, second |-> TRUE]
              ELSE
                  /\ set' = sorted
                  /\ result' = [call |-> "insert", value |-> value,
                                first |-> lower_bound(sorted, value), second |-> TRUE]
       ELSE
           \E differs \in Differs(set, lower_bound(set, value), value) :
              IF differs THEN
                  /\ set' = BaseInsert(set, lower_bound(set, value), value)
                  /\ result' = [call |-> "insert", value |-> value,
                                first |-> lower_bound(set, value), second |-> TRUE]
              ELSE
                  /\ set' = set
                  /\ result' = [call |-> "insert", value |-> value,
                                first |-> set.size + 1, second |-> FALSE]
    /\ UNCHANGED <<vmVars, busVars, combatVars, attackVars, textVars>>

(* ISmallSet::erase(const T &); result is the count it returns. *)
erase(value) ==
    /\ LET foundIt == find(set, value)
       IN IF foundIt = set.size + 1 THEN
              /\ set' = set
              /\ result' = [call |-> "erase", value |-> value, count |-> 0]
          ELSE
              /\ set' = BaseErase(set, foundIt)
              /\ result' = [call |-> "erase", value |-> value, count |-> 1]
    /\ UNCHANGED <<vmVars, busVars, combatVars, attackVars, textVars>>

(* The values of the tests and one more. *)
NextSet ==
    \/ \E value \in {-1, 0, 1, 2, 3} : insert(value)
    \/ \E value \in {-1, 0, 1, 2, 3} : erase(value)

SpecSet == Init /\ [][NextSet]_vars

(***************************************************************************)
(* TextBuffer (textbuffer.h, threadpool.cpp): _data as the sequence of its *)
(* characters, _cur as the number of characters before the cursor.         *)
(* Strings are sequences of characters.                                    *)
(***************************************************************************)
otherThanText == <<vmVars, busVars, combatVars, attackVars, setVars>>

(* seekCur without the clamp at the end of the buffer. *)
seekCurFromUnclamped(c, offset) ==
    IF offset < 0 THEN (IF -offset < c THEN c - (-offset) ELSE 0)
    ELSE c + offset

(* TextBuffer::seekCur with _cur = c. *)
seekCurFrom(c, offset) ==
    IF offset < 0 THEN
        LET offsetAbs == -offset
        IN IF offsetAbs < c THEN c - offsetAbs ELSE 0
    ELSE
        LET nextCur == c + offset
        IN IF nextCur <= Len(data) THEN nextCur ELSE Len(data)

seekCur(offset) ==
    /\ ~aborted
    /\ cur' = seekCurFrom(cur, offset)
    /\ UNCHANGED <<data, aborted, otherThanText>>

(* TextBuffer::seekSet *)
seekSet(offset) ==
    /\ ~aborted
    /\ cur' = seekCurFrom(0, offset)
    /\ UNCHANGED <<data, aborted, otherThanText>>

(* TextBuffer::seekEnd *)
seekEnd(offset) ==
    /\ ~aborted
    /\ cur' = seekCurFrom(Len(data), offset)
    /\ UNCHANGED <<data, aborted, otherThanText>>

(* TextBuffer::write(char) *)
write(c) ==
    /\ ~aborted
    /\ Len(data) < MaxText
    /\ data' = SubSeq(data, 1, cur) \o <<c>> \o SubSeq(data, cur + 1, Len(data))
    /\ cur' = cur + 1
    /\ UNCHANGED <<aborted, otherThanText>>

(* TextBuffer::write(std::string_view): the characters from the cursor on  *)
(* move inc places to the right, the last one first, and s is copied into  *)
(* the gap while the cursor advances.                                      *)
writeString(s) ==
    /\ ~aborted
    /\ Len(data) + Len(s) <= MaxText
    /\ LET origSize == Len(data)
           inc == Len(s)
       IN /\ data' = [index \in 1..(origSize + inc) |->
                         IF index <= cur THEN data[index]
                         ELSE IF index <= cur + inc THEN s[index - cur]
                         ELSE data[index - inc]]
          /\ cur' = cur + inc
    /\ UNCHANGED <<aborted, otherThanText>>

(* TextBuffer::erase *)
eraseBefore ==
    /\ ~aborted
    /\ IF cur = 0 THEN UNCHANGED <<data, cur>>
       ELSE /\ cur' = cur - 1
            /\ data' = SubSeq(data, 1, cur - 1) \o SubSeq(data, cur + 1, Len(data))
    /\ UNCHANGED <<aborted, otherThanText>>

(* TextBuffer::clear *)
clear ==
    /\ ~aborted
    /\ cur' = 0
    /\ data' = <<>>
    /\ UNCHANGED <<aborted, otherThanText>>

(* The positions, counted from 0, at which sub occurs in view: what        *)
(* std::string_view::find and rfind choose from.                           *)
Occurrences(view, sub) ==
    {at \in 0..(Len(view) - Len(sub)) : SubSeq(view, at + 1, at + Len(sub)) = sub}

(* &_data[i]: the subscript of std::vector requires i < size().  With      *)
(* i = size() a build without library assertions forms the address one     *)
(* past the end and goes on; a build with them aborts.                     *)
SubscriptOutcomes(i) == IF i < Len(data) THEN {"ok"} ELSE {"ok", "abort"}

(* TextBuffer::search *)
search(sub) ==
    /\ ~aborted
    /\ \E outcome \in SubscriptOutcomes(cur) :
          IF outcome = "abort" THEN aborted' = TRUE /\ UNCHANGED <<data, cur>>
          ELSE LET found == Occurrences(SubSeq(data, cur + 1, Len(data)), sub)
               IN /\ cur' = IF found = {} THEN Len(data)
                            ELSE cur + CHOOSE at \in found : \A other \in found : at <= other
                  /\ UNCHANGED <<data, aborted>>
    /\ UNCHANGED otherThanText

(* TextBuffer::rsearch *)
rsearch(sub) ==
    /\ ~aborted
    /\ \E outcome \in SubscriptOutcomes(0) :
          IF outcome = "abort" THEN aborted' = TRUE /\ UNCHANGED <<data, cur>>
          ELSE LET found == Occurrences(SubSeq(data, 1, cur), sub)
               IN /\ cur' = IF found = {} THEN 0
                            ELSE CHOOSE at \in found : \A other \in found : other <= at
                  /\ UNCHANGED <<data, aborted>>
    /\ UNCHANGED otherThanText

(* The calls made on the buffer: characters a, b and c, and seeks that     *)
(* reach beyond both ends.                                                 *)
NextText ==
    \/ \E c \in {"a", "b", "c"} : write(c)
    \/ \E s \in {<<>>, <<"a", "b">>, <<"c">>} : writeString(s)
    \/ eraseBefore
    \/ clear
    \/ \E offset \in -(MaxText + 1)..(MaxText + 1) : seekCur(offset)
    \/ \E offset \in -(MaxText + 1)..(MaxText + 1) : seekSet(offset)
    \/ \E offset \in -(MaxText + 1)..(MaxText + 1) : seekEnd(offset)
    \/ \E sub \in {<<>>, <<"a">>, <<"a", "b">>, <<"b", "a">>} : search(sub)
    \/ \E sub \in {<<>>, <<"a">>, <<"a", "b">>, <<"b", "a">>} : rsearch(sub)

SpecText == Init /\ [][NextText]_vars

(***************************************************************************)
(* Properties.                                                             *)
(***************************************************************************)

(* A transition of the main loop: the machine is running below the end of  *)
(* the program; the instruction it executes is ins'.                       *)
Stepping == status = "running" /\ insOff < ProgramLength(program)

TopIsInt(stk) == stk # <<>> /\ Last(stk).type = "Int"

(* C1: when run ends normally (the offset has reached the program length,  *)
(* by fallthrough or by RETN with no return address), it returns the int   *)
(* on top of the stack, and -1 when the stack is empty or its top is not   *)
(* an Int.                                                                 *)
C1_NormalEndResult ==
    (status = "done" /\ halt = "normal") =>
        /\ insOff >= ProgramLength(program)
        /\ TopIsInt(stack) => retval = Last(stack).v
        /\ ~TopIsInt(stack) => retval = -1

C1_Witness ==
    /\ status = "done" /\ halt = "normal"
    /\ ins.type = "RETN"
    /\ Len(stack) = 2 /\ stack[1].type = "Float" /\ stack[2] = ofInt(1)
    /\ retval = 1

C1_WitnessNoInt ==
    /\ status = "done" /\ halt = "normal"
    /\ stack # <<>> /\ Last(stack).type = "Float"
    /\ retval = -1

(* C2: an instruction whose opcode has no handler ends the run at that     *)
(* step with -1, whatever the stack holds; the step changes neither the    *)
(* stack nor the return addresses nor anything else of the machine or the  *)
(* engine, and once the run is over no instruction is executed until a new *)
(* run starts.                                                             *)
C2_Unimplemented ==
    [][/\ (Stepping /\ ins'.type = "UNKNOWN") =>
            /\ status' = "done" /\ retval' = -1 /\ halt' = "unimplemented"
            /\ UNCHANGED <<stack, returnOffsets, globalCount, savedState, insOff,
                           heap, actions, invoked>>
       /\ status = "done" => ins' = NoIns]_vars

C2_Witness ==
    /\ status = "done" /\ halt = "unimplemented"
    /\ ins.type = "UNKNOWN"
    /\ stack # <<>> /\ Last(stack) = ofInt(1)
    /\ retval = -1

(* The cases in which a handler of the modelled instructions throws: a     *)
(* jump or routine argument whose slot has the wrong tag, and a routine    *)
(* call with more arguments than the routine declares.                     *)
Raises(i) ==
    \/ i.type \in {"JZ", "JNZ"} /\ stack # <<>> /\ Last(stack).type # "Int"
    \/ i.type = "ACTION" /\ i.argCount > Len(Routine(i.routine).args)
    \/ /\ i.type = "ACTION" /\ i.argCount = 1 /\ Routine(i.routine).args = <<"Int">>
       /\ stack # <<>> /\ Last(stack).type # "Int"

IsPrefix(s, t) == Len(s) <= Len(t) /\ SubSeq(t, 1, Len(s)) = s

(* C3: a handler error ends the run at that step: run returns -1 whatever  *)
(* the stack holds, the offset does not move (nothing is retried, nothing  *)
(* executed after), and what earlier routine invocations did stays.        *)
C3_HandlerError ==
    [][/\ (Stepping /\ Raises(ins')) => halt' = "error"
       /\ (Stepping /\ halt' = "error") =>
            /\ status' = "done" /\ retval' = -1
            /\ insOff' = insOff
            /\ invoked' = invoked /\ actions' = actions
       /\ status = "done" => ins' = NoIns
       /\ invoked' >= invoked /\ IsPrefix(actions, actions')]_vars

C3_Witness ==
    /\ status = "done" /\ halt = "error"
    /\ ins.type = "JZ"
    /\ invoked = 1
    /\ stack # <<>> /\ Last(stack).type = "Int"
    /\ retval = -1

(* The first transition of a run, and a transition that starts one.       *)
AtStart == status = "running" /\ ins = NoIns

(* C4: a run whose context carries the saved state S starts with the       *)
(* stack S.globals followed by S.locals, the boundary at the number of     *)
(* globals, and its first instruction is the one at S's resume offset; a   *)
(* run without saved state starts with an empty stack, boundary 0, at 13.  *)
C4_ResumeRoundTrip ==
    [][/\ AtStart' =>
            IF context'.savedState # 0 THEN
                LET S == heap'[context'.savedState]
                IN /\ stack' = S.globals \o S.locals
                   /\ globalCount' = Len(S.globals)
                   /\ SubSeq(stack', 1, globalCount') = S.globals
                   /\ SubSeq(stack', globalCount' + 1, Len(stack')) = S.locals
                   /\ insOff' = S.insOffset
                   /\ program' = S.program
            ELSE /\ stack' = <<>>
                 /\ globalCount' = 0
                 /\ insOff' = 13
       /\ (AtStart /\ Stepping) =>
            /\ ins'.offset = insOff
            /\ ins' \in InstructionsAt(program, insOff)
       /\ (status # "running" /\ status' = "running") => AtStart'
       /\ (runner' = "docommand") => context'.savedState # 0
       /\ (runner' = "script") => context'.savedState = 0]_vars

C4_Witness ==
    /\ AtStart
    /\ runner = "docommand"
    /\ heap[context.savedState].globals = <<ofInt(1)>>
    /\ heap[context.savedState].locals = <<ofInt(1)>>
    /\ heap[context.savedState].insOffset = 45
    /\ stack = <<ofInt(1), ofInt(1)>>
    /\ globalCount = 1
    /\ insOff = 45

(* The slots STORE_STATE reads are inside the stack.                       *)
StoreStateInRange(i) ==
    /\ i.size \div 4 <= globalCount
    /\ globalCount <= Len(stack)
    /\ i.sizeLocals \div 4 <= Len(stack)

(* C5: STORE_STATE at offset o records the size/4 slots ending at the      *)
(* boundary as globals, the top sizeLocals/4 slots as locals, the running  *)
(* program and the resume offset o + 0x10; stack, return-address stack and *)
(* boundary stay as they are and the run goes on at the natural successor. *)
C5_StoreState ==
    [][(Stepping /\ ins'.type = "STORE_STATE" /\ StoreStateInRange(ins')) =>
            /\ savedState'.globals =
                   SubSeq(stack, globalCount - (ins'.size \div 4) + 1, globalCount)
            /\ savedState'.locals =
                   SubSeq(stack, Len(stack) - (ins'.sizeLocals \div 4) + 1, Len(stack))
            /\ savedState'.program = program
            /\ savedState'.insOffset = insOff + 16
            /\ stack' = stack
            /\ returnOffsets' = returnOffsets
            /\ globalCount' = globalCount
            /\ status' = "running"
            /\ insOff' = NaturalSuccessor(insOff)
            /\ insOff' # savedState'.insOffset]_vars

C5_Witness ==
    /\ status = "running"
    /\ ins.type = "STORE_STATE" /\ ins.offset = 29
    /\ ins.size = 4 /\ ins.sizeLocals = 4
    /\ stack = <<ofInt(0), ofInt(1)>>
    /\ globalCount = 1
    /\ savedState = ExecutionState(<<ofInt(0)>>, <<ofInt(1)>>, 2, 45)
    /\ insOff = 39

(* C6: what an Action holds (the context handed to the engine and the      *)
(* saved state it refers to) is changed by no later step of any machine.   *)
C6_CapturedStateImmutable ==
    [][/\ \A r \in 1..Len(heap) : r <= Len(heap') /\ heap'[r] = heap[r]
       /\ \A k \in 1..Len(actions) : k <= Len(actions') /\ actions'[k] = actions[k]
       /\ \A k \in 1..Len(actions') : actions'[k].savedState \in 1..Len(heap')]_vars

C6_Witness ==
    /\ Len(actions) = 2
    /\ runner = "script"
    /\ savedState # heap[actions[1].savedState]
    /\ heap[actions[2].savedState] = savedState
    /\ heap[actions[1].savedState].globals = <<>>
    /\ savedState.globals # <<>>
    /\ stack # savedState.globals \o savedState.locals

HasCaller(args) == \E j \in 1..Len(args) : args[j].kind = "Caller"

FirstCaller(args) ==
    CHOOSE j \in 1..Len(args) :
        args[j].kind = "Caller" /\ \A h \in 1..(j - 1) : args[h].kind # "Caller"

(* new is old re-bound to the actor a. *)
Rebound(old, new, a) ==
    IF HasCaller(old)
    THEN /\ Len(new) = Len(old)
         /\ new[FirstCaller(old)] = Arg("Caller", ofObject(a))
         /\ \A j \in 1..Len(old) : j # FirstCaller(old) => new[j] = old[j]
    ELSE new = Append(old, Arg("Caller", ofObject(a)))

(* C7: DoCommand for actor A runs a context made from a captured Action    *)
(* context whose first Caller argument is Object(A), or with Caller        *)
(* Object(A) appended when there is none, every other argument as it was;  *)
(* the captured contexts themselves stay as they are.                      *)
C7_CallerRebinding ==
    [][(resumes' = resumes + 1 /\ status' = "running") =>
            /\ actor' \in Actors
            /\ \E k \in 1..Len(actions) :
                /\ Rebound(actions[k].args, context'.args, actor')
                /\ context'.routines = actions[k].routines
                /\ context'.savedState = actions[k].savedState
            /\ actions' = actions
            /\ heap' = heap]_vars

C7_Witness ==
    /\ resumes = 2
    /\ actor = 9
    /\ status = "running"
    /\ Len(actions) = 1
    /\ actions[1].args = <<Arg("LastOpenedBy", ofObject(7)), Arg("Caller", ofObject(5)),
                          Arg("Caller", ofObject(6))>>
    /\ context.args = <<Arg("LastOpenedBy", ofObject(7)), Arg("Caller", ofObject(9)),
                        Arg("Caller", ofObject(6))>>

(* The instruction is an ACTION that marshals one Action parameter.        *)
TakesAction(i) ==
    /\ i.type = "ACTION"
    /\ i.argCount >= 1
    /\ i.argCount <= Len(Routine(i.routine).args)
    /\ Routine(i.routine).args[1] = "Action"

(* C8: ACTION with an Action parameter pops nothing and hands the routine  *)
(* a copy of the running context (same routines, same arguments) whose     *)
(* saved state is a copy of what the last STORE_STATE of this machine      *)
(* recorded, the program of that state being the running program.          *)
C8_ActionCapture ==
    [][/\ (Stepping /\ TakesAction(ins')) =>
            /\ stack' = stack
            /\ Len(actions') = Len(actions) + 1
            /\ Len(heap') = Len(heap) + 1
            /\ Last(actions').routines = context.routines
            /\ Last(actions').args = context.args
            /\ Last(actions').savedState = Len(heap')
            /\ heap'[Len(heap')] = savedState
            /\ savedState' = savedState
            /\ savedState.program \in {NullProgram, program}
            /\ (savedState.program = NullProgram) => savedState = DefaultState
       /\ AtStart' => savedState' = DefaultState
       /\ (Stepping /\ ins'.type # "STORE_STATE") => savedState' = savedState
       /\ (status' = "running" /\ savedState' # savedState) =>
            \/ AtStart'
            \/ ins'.type = "STORE_STATE" /\ savedState'.program = program']_vars

C8_Witness ==
    /\ status = "running"
    /\ ins.type = "ACTION" /\ ins.offset = 55
    /\ Len(actions) = 1
    /\ actions[1] = Context(context.routines, 1, context.args)
    /\ heap[1] = savedState
    /\ savedState = ExecutionState(<<ofInt(0)>>, <<ofInt(1)>>, 2, 45)
    /\ stack = <<ofInt(0), ofInt(1)>>

(* C9: JSR pushes its natural successor on the return-address stack and    *)
(* jumps to o + jumpOffset; RETN pops the last entry and goes on there, or *)
(* with no entry ends the run normally, with the top-of-stack result; no   *)
(* other instruction touches the return-address stack, a run starts with   *)
(* it empty, and JSR and RETN leave the operand stack alone.               *)
C9_Subroutines ==
    [][/\ (Stepping /\ ins'.type = "JSR") =>
            /\ returnOffsets' = Append(returnOffsets, NaturalSuccessor(insOff))
            /\ insOff' = insOff + ins'.jumpOffset
            /\ stack' = stack
            /\ status' = "running"
       /\ (Stepping /\ ins'.type = "RETN" /\ returnOffsets # <<>>) =>
            /\ returnOffsets' = Front(returnOffsets)
            /\ insOff' = Last(returnOffsets)
            /\ stack' = stack
            /\ status' = "running"
       /\ (Stepping /\ ins'.type = "RETN" /\ returnOffsets = <<>>) =>
            /\ returnOffsets' = <<>>
            /\ stack' = stack
            /\ status' = "running"
            /\ insOff' >= ProgramLength(program)
       /\ (status = "running" /\ insOff >= ProgramLength(program)) =>
            /\ status' = "done" /\ halt' = "normal"
            /\ retval' = IF TopIsInt(stack) THEN Last(stack).v ELSE -1
       /\ (Stepping /\ ins'.type \notin {"JSR", "RETN"}) => returnOffsets' = returnOffsets
       /\ AtStart' => returnOffsets' = <<>>]_vars

C9_Witness ==
    /\ status = "running"
    /\ ins.type = "RETN" /\ ins.offset = 45
    /\ returnOffsets = <<23>>
    /\ insOff = 39
    /\ code[1][13].type = "JSR" /\ code[1][29].type = "JSR"

C9_WitnessEnd ==
    /\ status = "done" /\ halt = "normal"
    /\ ins.type = "RETN"
    /\ returnOffsets = <<>>
    /\ code[program][13].type = "JSR"
    /\ retval = 1

(* C10: JMP goes on at o + jumpOffset and leaves the stack alone; JZ (JNZ) *)
(* pops one Int and goes on at o + jumpOffset iff it is zero (non-zero),   *)
(* else at the natural successor; the operand is popped either way.        *)
C10_Jumps ==
    [][/\ (Stepping /\ ins'.type = "JMP") =>
            /\ insOff' = insOff + ins'.jumpOffset
            /\ stack' = stack
            /\ status' = "running"
       /\ (Stepping /\ ins'.type = "JZ" /\ TopIsInt(stack)) =>
            /\ stack' = Front(stack)
            /\ insOff' = IF Last(stack).v = 0 THEN insOff + ins'.jumpOffset
                         ELSE NaturalSuccessor(insOff)
            /\ status' = "running"
       /\ (Stepping /\ ins'.type = "JNZ" /\ TopIsInt(stack)) =>
            /\ stack' = Front(stack)
            /\ insOff' = IF Last(stack).v # 0 THEN insOff + ins'.jumpOffset
                         ELSE NaturalSuccessor(insOff)
            /\ status' = "running"
       /\ (Stepping /\ ins'.type \in {"JMP", "JZ", "JNZ"}) =>
            /\ insOff + ins'.jumpOffset # NaturalSuccessor(insOff)
            /\ returnOffsets' = returnOffsets]_vars

C10_Witness ==
    /\ status = "running"
    /\ ins.type = "JZ" /\ ins.offset = 23 /\ ins.jumpOffset = 16
    /\ insOff = 39
    /\ stack = <<>>
    /\ code[1][13] = InsCONSTI(13, 0)

C10_WitnessFallThrough ==
    /\ status = "running"
    /\ ins.type = "JZ" /\ ins.offset = 23
    /\ insOff = 29
    /\ stack = <<>>
    /\ code[1][13] = InsCONSTI(13, 1)

(* C11: CONSTO pushes exactly one Object variable: the encoded id when it  *)
(* is not the self sentinel, else the value of the first Caller argument   *)
(* of the context, and Object(kObjectInvalid) when the context has no      *)
(* Caller argument; the sentinel itself is never what it pushes.           *)
C11_SelfResolution ==
    [][(Stepping /\ ins'.type = "CONSTO") =>
            /\ status' = "running"
            /\ Len(stack') = Len(stack) + 1
            /\ Front(stack') = stack
            /\ Last(stack').type = "Object"
            /\ Last(stack').v # kObjectSelf
            /\ ins'.objectId # kObjectSelf => Last(stack').v = ins'.objectId
            /\ (ins'.objectId = kObjectSelf /\ HasCaller(context.args)) =>
                    Last(stack') = context.args[FirstCaller(context.args)].var
            /\ (ins'.objectId = kObjectSelf /\ ~HasCaller(context.args)) =>
                    Last(stack') = ofObject(kObjectInvalid)]_vars

(* Self resolved to the caller of the script. *)
C11_Witness ==
    /\ status = "running"
    /\ ins = InsCONSTO(23, kObjectSelf)
    /\ HasCaller(context.args)
    /\ stack # <<>> /\ Last(stack) = ofObject(5)

(* Self resolved in a context without a Caller argument. *)
C11_WitnessNoCaller ==
    /\ status = "running"
    /\ ins = InsCONSTO(23, kObjectSelf)
    /\ ~HasCaller(context.args)
    /\ stack # <<>> /\ Last(stack) = ofObject(kObjectInvalid)

(* C12: an ACTION whose argument count exceeds what the routine declares   *)
(* fails the step: the routine is not invoked, the stack is left as it     *)
(* was, and run returns -1.                                                *)
C12_TooManyArguments ==
    [][(Stepping /\ ins'.type = "ACTION"
            /\ ins'.argCount > Len(Routine(ins'.routine).args)) =>
            /\ status' = "done"
            /\ retval' = kFailure
            /\ halt' = "error"
            /\ stack' = stack
            /\ invoked' = invoked
            /\ lastCall' = lastCall
            /\ actions' = actions]_vars

(* Three arguments asked of the two-parameter routine, with the stack      *)
(* holding what the two parameters would take.                             *)
C12_Witness ==
    /\ status = "done" /\ halt = "error" /\ retval = kFailure
    /\ ins = InsACTION(45, 4, 3)
    /\ Len(stack) = 4
    /\ stack[1].type = "Int"
    /\ \A k \in 2..4 : stack[k].type = "Float"
    /\ invoked = 1

(* The tags the first n parameters of the types require of the stack, from *)
(* the top downwards.                                                      *)
RECURSIVE RequiredTags(_, _)
RequiredTags(types, n) ==
    IF n = 0 THEN <<>>
    ELSE RequiredTags(types, n - 1) \o
         (CASE types[n] = "Vector" -> <<"Float", "Float", "Float">>
            [] types[n] = "Action" -> <<>>
            [] OTHER -> <<types[n]>>)

(* The slot of stk at depth j, the top being at depth 1. *)
AtDepth(stk, j) == stk[Len(stk) - j + 1]

(* The top Len(tags) slots of stk carry the tags. *)
TagsMatch(stk, tags) ==
    /\ Len(tags) <= Len(stk)
    /\ \A j \in 1..Len(tags) : AtDepth(stk, j).type = tags[j]

(* A slot of stk carries another tag than required, and every slot above   *)
(* it the required one.                                                    *)
TagMismatch(stk, tags) ==
    \E j \in 1..Len(tags) :
        /\ j <= Len(stk)
        /\ AtDepth(stk, j).type # tags[j]
        /\ \A h \in 1..(j - 1) : AtDepth(stk, h).type = tags[h]

(* a is what parameter k of the types receives from stk. *)
ArgumentFrom(stk, types, k, a) ==
    LET d == Len(RequiredTags(types, k - 1))
    IN CASE types[k] = "Vector" ->
                /\ a.type = "Vector"
                /\ a.v = <<AtDepth(stk, d + 3).v, AtDepth(stk, d + 2).v, AtDepth(stk, d + 1).v>>
         [] types[k] = "Action" -> a.type = "Action"
         [] OTHER -> a.type = types[k] /\ a.v = AtDepth(stk, d + 1).v

(* pushed is what a return value ret of type returnType leaves on the      *)
(* stack.                                                                  *)
ResultSlots(returnType, ret, pushed) ==
    CASE returnType = "Void" -> pushed = <<>>
      [] returnType = "Vector" ->
            /\ Len(pushed) = 3
            /\ \A k \in 1..3 : pushed[k].type = "Float"
            /\ {pushed[k].v : k \in 1..3} = {ret.v[k] : k \in 1..3}
      [] OTHER -> pushed = <<ret>>

(* C13: ACTION takes the arguments of parameters 0 .. argCount-1 in that   *)
(* order: three Float slots for a Vector, none for an Action, else the top *)
(* slot, which must carry the declared tag (otherwise the step fails and   *)
(* the routine is not invoked); it invokes the routine once with the       *)
(* arguments in parameter order, and then pushes nothing for Void, three   *)
(* Float slots for Vector, and the returned variable for any other type.   *)
C13_Marshaling ==
    [][(Stepping /\ ins'.type = "ACTION"
            /\ ins'.argCount <= Len(Routine(ins'.routine).args)) =>
        LET routine == Routine(ins'.routine)
            tags == RequiredTags(routine.args, ins'.argCount)
            rest == SubSeq(stack, 1, Len(stack) - Len(tags))
        IN /\ TagMismatch(stack, tags) =>
                /\ status' = "done" /\ halt' = "error" /\ retval' = kFailure
                /\ invoked' = invoked
                /\ lastCall' = lastCall
           /\ TagsMatch(stack, tags) =>
                /\ status' = "running" \/ (halt' = "error" /\ routine.mayThrow)
                /\ status' = "running" =>
                    /\ invoked' = invoked + 1
                    /\ lastCall'.routine = ins'.routine
                    /\ Len(lastCall'.args) = ins'.argCount
                    /\ \A k \in 1..ins'.argCount :
                            ArgumentFrom(stack, routine.args, k, lastCall'.args[k])
                    /\ Len(stack') >= Len(rest)
                    /\ SubSeq(stack', 1, Len(rest)) = rest
                    /\ ResultSlots(routine.ret, lastCall'.ret,
                                   SubSeq(stack', Len(rest) + 1, Len(stack')))]_vars

(* The routine with a Vector and an Int parameter received both, the       *)
(* vector first, and its Float result is the only slot left.               *)
C13_Witness ==
    /\ status = "running"
    /\ ins = InsACTION(45, 4, 2)
    /\ lastCall.routine = 4
    /\ Len(lastCall.args) = 2
    /\ lastCall.args[1].type = "Vector" /\ lastCall.args[2] = ofInt(1)
    /\ stack = <<lastCall.ret>>
    /\ lastCall.ret.type = "Float"

(* A parameter found another tag than it declares. *)
C13_WitnessMismatch ==
    /\ status = "done" /\ halt = "error"
    /\ ins = InsACTION(45, 2, 1)
    /\ stack # <<>> /\ Last(stack).type = "String"

(* C14: a vector returned by a routine and taken, with no instruction in   *)
(* between, as the Vector parameter of the next ACTION reaches that        *)
(* routine as the same vector, component for component.                    *)
C14_VectorRoundTrip ==
    [][(/\ Stepping
        /\ ins.type = "ACTION" /\ Routine(ins.routine).ret = "Vector"
        /\ lastCall.routine = ins.routine
        /\ ins'.type = "ACTION" /\ ins'.argCount >= 1
        /\ Len(Routine(ins'.routine).args) >= 1
        /\ Routine(ins'.routine).args[1] = "Vector"
        /\ invoked' = invoked + 1) =>
            /\ lastCall'.args[1].type = "Vector"
            /\ lastCall'.args[1].v = lastCall.ret.v]_vars

(* The instruction i reads the int or float payload of a slot that is      *)
(* there and carries another tag than i expects.                           *)
ReadsOtherTag(stk, gc, i) ==
    LET n == Len(stk)
        sp == n + CDiv(i.stackOffset, 4)
        bp == gc + CDiv(i.stackOffset, 4)
    IN CASE i.type \in BinaryOps ->
                /\ n >= 2
                /\ \/ stk[n - 1].type # OperandTypes(i.type)[1]
                   \/ stk[n].type # OperandTypes(i.type)[2]
         [] i.type \in {"JZ", "JNZ", "NOTI", "RESTOREBP", "NEGI"} ->
                n >= 1 /\ stk[n].type # "Int"
         [] i.type = "NEGF" -> n >= 1 /\ stk[n].type # "Float"
         [] i.type \in {"INCISP", "DECISP"} ->
                sp >= 0 /\ sp < n /\ stk[sp + 1].type # "Int"
         [] i.type \in {"INCIBP", "DECIBP"} ->
                bp >= 0 /\ bp < n /\ stk[bp + 1].type # "Int"
         [] OTHER -> FALSE

(* C15: every instruction that reads the int or float payload of a stack   *)
(* slot (the binary opcodes, JZ, JNZ, NOTI, RESTOREBP, NEGI, NEGF, INCISP, *)
(* DECISP, INCIBP, DECIBP) ends the run with failure when the tag of the   *)
(* slot is not the one it expects.                                         *)
C15_NoSilentCoercion ==
    [][(Stepping /\ ReadsOtherTag(stack, globalCount, ins')) =>
            /\ status' = "done"
            /\ halt' = "error"
            /\ retval' = kFailure]_vars

(* C16 as stated: CPDOWNSP, CPTOPSP, CPDOWNBP and CPTOPBP never change the *)
(* stack size: the stack has as many slots after the step as before it.    *)
C16_CopiesKeepSize ==
    [][(Stepping /\ ins'.type \in {"CPDOWNSP", "CPTOPSP", "CPDOWNBP", "CPTOPBP"}) =>
            Len(stack') = Len(stack)]_vars

(* C16, amended: CPDOWNSP and CPDOWNBP never change the stack size;        *)
(* CPTOPSP and CPTOPBP push the size/4 slots they copy on top of the       *)
(* stack, which grows by that many slots and keeps every slot it had.      *)
C16_CopySizes ==
    [][(Stepping /\ halt' # "ub") =>
            /\ ins'.type \in {"CPDOWNSP", "CPDOWNBP"} =>
                    /\ status' = "running"
                    /\ Len(stack') = Len(stack)
            /\ ins'.type \in {"CPTOPSP", "CPTOPBP"} =>
                    /\ status' = "running"
                    /\ Len(stack') = Len(stack) + (ins'.size \div 4)
                    /\ SubSeq(stack', 1, Len(stack)) = stack]_vars

(* CPTOPSP of two slots on a stack of two: four slots afterwards, the top  *)
(* two being copies of the first two.                                      *)
C16_Witness ==
    /\ status = "running"
    /\ ins = InsCopy("CPTOPSP", 45, 8, -8)
    /\ Len(stack) = 4
    /\ stack[1].type # stack[2].type
    /\ VariableEquals(stack[3], stack[1])
    /\ VariableEquals(stack[4], stack[2])

(* CPDOWNSP of one slot over the slot below it. *)
C16_WitnessDown ==
    /\ status = "running"
    /\ ins = InsCopy("CPDOWNSP", 45, 4, -8)
    /\ Len(stack) = 2
    /\ stack[1] = ofInt(1) /\ stack[2] = ofInt(1)
    /\ code[3][13] = InsCONSTI(13, 0)

(* The destroyed range of i lies inside a stack of n slots and the         *)
(* preserved range inside the destroyed one.                               *)
DestructInRange(n, i) ==
    /\ 0 <= i.stackOffset
    /\ 0 <= i.sizeNoDestroy
    /\ i.stackOffset + i.sizeNoDestroy <= i.size
    /\ i.size <= 4 * n

(* C17: DESTRUCT(size, stackOffset, sizeNoDestroy) on a stack of n slots,  *)
(* with start = n - size/4, leaves the old slots [0, start) followed by    *)
(* the old slots [start + stackOffset/4, start + stackOffset/4 +           *)
(* sizeNoDestroy/4) in their order; start + sizeNoDestroy/4 slots remain.  *)
C17_Destruct ==
    [][(Stepping /\ ins'.type = "DESTRUCT" /\ DestructInRange(Len(stack), ins')) =>
        LET start == Len(stack) - (ins'.size \div 4)
            first == start + (ins'.stackOffset \div 4)
            count == ins'.sizeNoDestroy \div 4
        IN /\ status' = "running"
           /\ stack' = SubSeq(stack, 1, start) \o SubSeq(stack, first + 1, first + count)
           /\ Len(stack') = start + count]_vars

(* Of four slots the upper three are destroyed but the middle one of them, *)
(* which moves down to the second place.                                   *)
C17_Witness ==
    /\ status = "running"
    /\ ins = InsDESTRUCT(45, 12, 4, 4)
    /\ code[3][13] = InsCONSTS(13, <<"a">>)
    /\ code[3][23] = InsCONSTF(23, Float(2))
    /\ code[3][29] = InsCONSTI(29, 0)
    /\ code[3][39] = InsCONSTI(39, 1)
    /\ stack = <<ofString(<<"a">>), ofInt(0)>>

(* C18: SAVEBP on a stack of n slots sets the global/local boundary to n   *)
(* and pushes Int(n); RESTOREBP pops one Int v and sets the boundary to v; *)
(* neither touches another slot or the return-address stack.               *)
C18_BasePointer ==
    [][/\ (Stepping /\ ins'.type = "SAVEBP") =>
            /\ status' = "running"
            /\ globalCount' = Len(stack)
            /\ stack' = Append(stack, ofInt(Len(stack)))
            /\ returnOffsets' = returnOffsets
       /\ (Stepping /\ ins'.type = "RESTOREBP" /\ TopIsInt(stack)) =>
            /\ status' = "running"
            /\ globalCount' = Last(stack).v
            /\ stack' = Front(stack)
            /\ returnOffsets' = returnOffsets]_vars

(* SAVEBP on one slot set the boundary to 1 and pushed Int 1; RESTOREBP    *)
(* then popped the Int 0 pushed after it and set the boundary to 0.        *)
C18_Witness ==
    /\ status = "running"
    /\ ins.type = "RESTOREBP"
    /\ code[3][23].type = "SAVEBP"
    /\ code[3][29] = InsCONSTI(29, 0)
    /\ code[3][39].type = "NOP"
    /\ globalCount = 0
    /\ Len(stack) = 2 /\ stack[2] = ofInt(1)

(* Two slots with the same tag and the same payload. *)
SameSlot(a, b) == a.type = b.type /\ a.v = b.v

(* The top count slots of stk and the count slots below them are equal,    *)
(* each to the one in the same position of the other tuple.                *)
SameTuples(stk, count) ==
    \A k \in 1..count :
        SameSlot(stk[Len(stk) - count + k], stk[Len(stk) - 2 * count + k])

(* C19: EQUALTT of size 4*N pops 2*N slots and pushes Int(1) iff the top N *)
(* slots and the N below them are equal position by position (tag and      *)
(* payload), else Int(0); NEQUALTT pushes the negation.  The stack changes *)
(* by -(2*N) + 1 slots.                                                    *)
C19_StructuredEquality ==
    [][(Stepping /\ ins'.type \in {"EQUALTT", "NEQUALTT"}
            /\ ins'.size >= 4 /\ 2 * (ins'.size \div 4) <= Len(stack)) =>
        LET count == ins'.size \div 4
            equal == SameTuples(stack, count)
            pushed == IF ins'.type = "EQUALTT" THEN equal ELSE ~equal
        IN /\ status' = "running"
           /\ stack' = Append(SubSeq(stack, 1, Len(stack) - 2 * count),
                              ofInt(IF pushed THEN 1 ELSE 0))
           /\ Len(stack') = Len(stack) - 2 * count + 1]_vars

(* The pairs (0, 1) and (0, 1) compared equal. *)
C19_Witness ==
    /\ status = "running"
    /\ ins = InsSized("EQUALTT", 45, 8)
    /\ code[3][13] = InsCONSTI(13, 0)
    /\ code[3][23] = InsCONSTI(23, 1)
    /\ code[3][29] = InsCONSTI(29, 0)
    /\ code[3][39] = InsCONSTI(39, 1)
    /\ stack = <<ofInt(1)>>

(* The pairs (1, 1) and (0, 1) compared unequal by NEQUALTT. *)
C19_WitnessUnequal ==
    /\ status = "running"
    /\ ins = InsSized("NEQUALTT", 45, 8)
    /\ code[3][13] = InsCONSTI(13, 1)
    /\ code[3][23] = InsCONSTI(23, 1)
    /\ code[3][29] = InsCONSTI(29, 0)
    /\ code[3][39] = InsCONSTI(39, 1)
    /\ stack = <<ofInt(1)>>

ConstantPushes == {"CONSTI", "CONSTF", "CONSTS", "CONSTO"}
ReservePushes ==
    {"RSADDI", "RSADDF", "RSADDS", "RSADDO", "RSADDEFF", "RSADDEVT", "RSADDLOC", "RSADDTAL"}
UnaryOps == {"NEGI", "NEGF", "NOTI"}

(* The opcodes of the stack discipline, and those that neither touch the   *)
(* stack nor are part of it: NOP, RETN and an offset not fetched.          *)
DisciplineOps ==
    ConstantPushes \cup ReservePushes \cup BinaryOps \cup UnaryOps \cup {"MOVSP", "JZ", "JNZ"}
NeutralOps == {"NOP", "RETN", "NONE"}

(* The fixed change of the stack size by the instruction i. *)
Delta(i) ==
    CASE i.type \in ConstantPushes \cup ReservePushes -> 1
      [] i.type \in BinaryOps -> -1
      [] i.type \in UnaryOps -> 0
      [] i.type \in {"JZ", "JNZ"} -> -1
      [] i.type = "MOVSP" -> -((-i.stackOffset) \div 4)
      [] OTHER -> 0

(* The zero value of the tag an RSADDx reserves. *)
ZeroValue(t) ==
    CASE t = "RSADDI" -> [type |-> "Int", v |-> 0]
      [] t = "RSADDF" -> [type |-> "Float", v |-> 0]
      [] t = "RSADDS" -> [type |-> "String", v |-> <<>>]
      [] t = "RSADDO" -> [type |-> "Object", v |-> kObjectInvalid]
      [] t = "RSADDEFF" -> [type |-> "Effect", v |-> nullptr]
      [] t = "RSADDEVT" -> [type |-> "Event", v |-> nullptr]
      [] t = "RSADDLOC" -> [type |-> "Location", v |-> nullptr]
      [] t = "RSADDTAL" -> [type |-> "Talent", v |-> nullptr]

(* The sum of the deltas of the instructions of the decoded program c at   *)
(* the offsets S.                                                          *)
RECURSIVE SumDeltas(_, _)
SumDeltas(c, S) ==
    IF S = {} THEN 0
    ELSE LET o == CHOOSE x \in S : TRUE
         IN Delta(c[o]) + SumDeltas(c, S \ {o})

(* C20: in a run without error of a program made of constant pushes,       *)
(* reserve pushes, scalar binary operations, unary operations, MOVSP and   *)
(* conditional jumps, every step changes the stack size by the fixed delta *)
(* of its opcode (+1 push, -1 binary, 0 unary, -1 JZ/JNZ, stackOffset/4    *)
(* MOVSP), so the size is the sum of the deltas of the executed            *)
(* instructions; each RSADDx pushes the zero value of its tag.  Program 3  *)
(* executes each instruction it has fetched once.                          *)
C20_StackDiscipline ==
    [][/\ (Stepping /\ status' = "running" /\ halt' = "none"
                /\ ins'.type \in DisciplineOps) =>
            /\ Len(stack') = Len(stack) + Delta(ins')
            /\ ins'.type \in ReservePushes => stack' = Append(stack, ZeroValue(ins'.type))
       /\ (program' = 3 /\ halt' \in {"none", "normal"}
                /\ \A o \in Offsets(3) : code'[3][o].type \in DisciplineOps \cup NeutralOps) =>
            Len(stack') = SumDeltas(code'[3], Offsets(3))]_vars

(* RSADDI, three CONSTI 1, ADDII, JNZ taken, RETN: two slots are left of   *)
(* four pushed.                                                            *)
C20_Witness ==
    /\ status = "done" /\ halt = "normal"
    /\ code[3][13].type = "RSADDI"
    /\ code[3][23] = InsCONSTI(23, 1)
    /\ code[3][29] = InsCONSTI(29, 1)
    /\ code[3][39] = InsCONSTI(39, 1)
    /\ code[3][45].type = "ADDII"
    /\ code[3][55].type = "JNZ"
    /\ code[3][71].type = "RETN"
    /\ stack = <<ofInt(0), ofInt(1)>>

(* The int a OP b is, for the operations whose value C++ defines as the    *)
(* arithmetic one.                                                         *)
ArithmeticOps ==
    {"ADDII", "SUBII", "MULII", "EQUALII", "NEQUALII", "GEQII", "GTII", "LTII",
     "LEQII", "LOGANDII", "LOGORII"}

ValueOf(t, a, b) ==
    CASE t = "ADDII" -> a + b
      [] t = "SUBII" -> a - b
      [] t = "MULII" -> a * b
      [] t = "EQUALII" -> IF a = b THEN 1 ELSE 0
      [] t = "NEQUALII" -> IF a # b THEN 1 ELSE 0
      [] t = "GEQII" -> IF a >= b THEN 1 ELSE 0
      [] t = "GTII" -> IF a > b THEN 1 ELSE 0
      [] t = "LTII" -> IF a < b THEN 1 ELSE 0
      [] t = "LEQII" -> IF a <= b THEN 1 ELSE 0
      [] t = "LOGANDII" -> IF a # 0 /\ b # 0 THEN 1 ELSE 0
      [] t = "LOGORII" -> IF a # 0 \/ b # 0 THEN 1 ELSE 0

(* a OP b is an int: the sum, difference or product lies in the range of   *)
(* the 32-bit ints.                                                        *)
IsInt(t, a, b) ==
    CASE t = "ADDII" -> IF b >= 0 THEN a <= kMaxInt - b ELSE a >= kMinInt - b
      [] t = "SUBII" -> IF b >= 0 THEN a >= kMinInt + b ELSE a <= kMaxInt + b
      [] t = "MULII" ->
            \/ a \in {0, 1} \/ b \in {0, 1}
            \/ /\ a # kMinInt /\ b # kMinInt
               /\ (IF a < 0 THEN -a ELSE a) <= kMaxInt \div (IF b < 0 THEN -b ELSE b)
      [] OTHER -> TRUE

(* The run of program 4 has ended with the instructions CONSTI a,          *)
(* CONSTI b, OP.                                                           *)
RanArithmetic(t, a, b) ==
    /\ program = 4 /\ status = "done" /\ context.args = <<>>
    /\ savedState = DefaultState
    /\ code[4][13] = InsCONSTI(13, a)
    /\ code[4][23] = InsCONSTI(23, b)
    /\ code[4][29].type = t
    /\ code[4][39].type = "RETN"

(* C21: the program CONSTI a; CONSTI b; OP; RETN, run with no saved state  *)
(* and no arguments, ends normally and returns a OP b, the value pushed    *)
(* first being the left operand, for every OP on two ints and all ints a   *)
(* and b for which a OP b is an int.                                       *)
C21_IntegerArithmetic ==
    \A t \in ArithmeticOps :
        LET a == code[4][13].intValue
            b == code[4][23].intValue
        IN (RanArithmetic(t, a, b) /\ IsInt(t, a, b)) =>
               halt = "normal" /\ retval = ValueOf(t, a, b)

(* CONSTI 2; CONSTI 3; ADDII; RETN has returned 5. *)
C21_Witness == RanArithmetic("ADDII", 2, 3) /\ retval = 5

(* CONSTI 2; CONSTI 3; SUBII; RETN has returned -1. *)
C21_WitnessOrder == RanArithmetic("SUBII", 2, 3) /\ retval = -1

(* CONSTI 2; CONSTI 3; LTII; RETN has returned 1. *)
C21_WitnessLess == RanArithmetic("LTII", 2, 3) /\ retval = 1

(* The arithmetic shift of l by r, 0 <= r < 32: the quotient of l by 2^r   *)
(* rounded toward minus infinity.                                          *)
ArithmeticShift(l, r) ==
    IF r = 31 THEN (IF l < 0 THEN -1 ELSE 0)
    ELSE IF l >= 0 THEN l \div 2^r
    ELSE -(((-(l + 1)) \div 2^r) + 1)

(* The machine is about to execute SHRIGHTII on the ints l and r, r a      *)
(* shift count.                                                            *)
Shifting ==
    /\ Stepping /\ ins'.type = "SHRIGHTII"
    /\ Len(stack) >= 2
    /\ stack[Len(stack) - 1].type = "Int" /\ Last(stack).type = "Int"
    /\ Last(stack).v \in 0..31

(* SHRIGHTII has replaced its operands by the int n. *)
Shifted(n) ==
    /\ halt' = "none"
    /\ stack' = Append(SubSeq(stack, 1, Len(stack) - 2), ofInt(n))

(* C23 as stated: for every int l and shift count 0 <= r < 32 SHRIGHTII    *)
(* pushes the arithmetic shift of l by r.                                  *)
C23_ArithmeticShift ==
    [][Shifting => Shifted(ArithmeticShift(stack[Len(stack) - 1].v, Last(stack).v))]_vars

(* C23, amended: for every int l other than INT_MIN and shift count        *)
(* 0 <= r < 32 SHRIGHTII pushes l >> r for non-negative l and -((-l) >> r) *)
(* for negative l, the quotient of l by 2^r rounded toward zero, which is  *)
(* the arithmetic shift of l when 2^r divides l and one more when it does  *)
(* not; for l = INT_MIN the behaviour is undefined.                        *)
C23_SignPreservingShift ==
    [][Shifting =>
        LET l == stack[Len(stack) - 1].v
            r == Last(stack).v
            exact == r < 31 /\ l % 2^r = 0
        IN IF l = kMinInt THEN halt' = "ub"
           ELSE /\ r < 31 => Shifted(CDiv(l, 2^r))
                /\ r = 31 => Shifted(0)
                /\ (l >= 0 \/ exact) => Shifted(ArithmeticShift(l, r))
                /\ (l < 0 /\ ~exact) => Shifted(ArithmeticShift(l, r) + 1)]_vars

(* -8 shifted by 1 has given -4. *)
C23_Witness ==
    /\ ins.type = "SHRIGHTII" /\ halt = "none"
    /\ code[4][13] = InsCONSTI(13, -8) /\ code[4][23] = InsCONSTI(23, 1)
    /\ stack = <<ofInt(-4)>>

(* -7 shifted by 1 has given -3. *)
C23_WitnessOdd ==
    /\ ins.type = "SHRIGHTII" /\ halt = "none"
    /\ code[4][13] = InsCONSTI(13, -7) /\ code[4][23] = InsCONSTI(23, 1)
    /\ stack = <<ofInt(-3)>>

(* The machine is about to execute DIVFF on two floats or DIVIF on an int  *)
(* and a float; the numerator and the divisor as numbers.                  *)
Dividing ==
    /\ Stepping /\ ins'.type \in {"DIVFF", "DIVIF"}
    /\ Len(stack) >= 2
    /\ stack[Len(stack) - 1].type = OperandTypes(ins'.type)[1]
    /\ Last(stack).type = "Float"

Numerator ==
    IF stack[Len(stack) - 1].type = "Int" THEN stack[Len(stack) - 1].v
    ELSE Number(stack[Len(stack) - 1].v)

Divisor == Number(Last(stack).v)

(* C24: DIVFF and DIVIF with divisor 0.0 push the numerator divided by the *)
(* floor 1e-5, and with every other divisor d, negative ones included, the *)
(* numerator divided by d.                                                 *)
C24_DivisionClamp ==
    [][Dividing =>
        /\ halt' = "none"
        /\ \E q \in (IF Divisor = 0 THEN {Numerator * 100000}
                     ELSE {n \in -6..6 : n * Divisor = Numerator}) :
              stack' = Append(SubSeq(stack, 1, Len(stack) - 2), ofFloat(Float(q)))]_vars

(* The kind/type pairing of an argument. *)
Paired(kind, var) ==
    \/ /\ kind \in {"Caller", "ClickingObject", "EnteringObject", "ExitingObject",
                     "LastClosedBy", "LastOpenedBy", "LastPerceived"}
       /\ var.type = "Object" /\ var.v # kObjectSelf
    \/ /\ kind \in {"ScriptVar", "UserDefinedEventNumber", "LastPerceptionHeard",
                     "LastPerceptionInaudible", "LastPerceptionSeen",
                     "LastPerceptionVanished"}
       /\ var.type = "Int"

AllPaired(args) == \A j \in 1..Len(args) : Paired(args[j].kind, args[j].var)

(* C22: the construction of an Argument fails with invalid-argument, and   *)
(* no Machine is run, unless the variable is an Object other than self for *)
(* an object kind and an Int for a numeric kind; every argument of the     *)
(* context a Machine runs with, the one DoCommand re-binds included, and   *)
(* of every context a script has captured satisfies this pairing.          *)
C22_ArgumentInvariant ==
    [][/\ \A kind \in ArgKinds, var \in {ofInt(1), ofObject(5), ofObject(kObjectSelf), ofNull} :
            RunWithArgument(2, kind, var) =>
                IF Paired(kind, var)
                THEN status' = "running" /\ context'.args = <<Arg(kind, var)>>
                ELSE status' = "failed" /\ halt' = "invalid_argument"
       /\ AllPaired(context'.args)
       /\ \A k \in 1..Len(actions') : AllPaired(actions'[k].args)]_vars

(* DoCommand has re-bound the Caller of a context captured by a run whose  *)
(* argument was Caller 5.                                                  *)
C22_Witness ==
    /\ runner = "docommand" /\ status = "running"
    /\ context.args = <<Arg("Caller", ofObject(actor))>>
    /\ actor \in Actors

(* DoCommand has added the Caller to a context captured without one. *)
C22_WitnessAdded ==
    /\ runner = "docommand" /\ status = "running"
    /\ context.args = <<Arg("LastOpenedBy", ofObject(5)), Arg("Caller", ofObject(actor))>>

(* The construction of Caller with the self sentinel has failed. *)
C22_WitnessRejected == status = "failed" /\ halt = "invalid_argument"

(* The step the machine takes from the current state with the channel      *)
(* disabled, the routine it may call returning rv or throwing (th).        *)
Untraced(rv, th) ==
    Dispatch([World EXCEPT !.nextInstruction = ins'.nextOffset, !.logEnabled = FALSE],
             ins', rv, th)

(* The step taken is the step u: the same next offset, stacks, routine     *)
(* call and halt.                                                          *)
SameStep(u) ==
    /\ stack' = u.stack
    /\ returnOffsets' = u.returnOffsets
    /\ globalCount' = u.globalCount
    /\ lastCall' = u.lastCall /\ invoked' = u.invoked /\ actions' = u.actions
    /\ IF u.exc THEN status' = "done" /\ halt' = "error" /\ retval' = -1
       ELSE status' = "running" /\ halt' = "none" /\ insOff' = u.nextInstruction

(* C25: a run with the trace channel enabled takes, from every state, the  *)
(* step the run with the channel disabled takes from that state (the same  *)
(* next offset, operand stack, return-address stack, routine call and      *)
(* halt), wherever the latter is defined, and returns the same value; so   *)
(* the two runs of a program and context are equal step by step.           *)
C25_TracingNonInterfering ==
    [][/\ (Stepping /\ logEnabled /\ ins'.type \in Handled) =>
            \E rv \in RoutineResults, th \in BOOLEAN :
                Untraced(rv, th).ub \/ SameStep(Untraced(rv, th))
       /\ (status = "running" /\ insOff >= ProgramLength(program) /\ logEnabled) =>
            retval' = ReturnResult(stack)]_vars

(* The stacks and the boundary of a machine. *)
Stacks(m) == <<m.stack, m.returnOffsets, m.globalCount>>

(* C26: a machine constructed for a command starts, whatever machine ran   *)
(* before it or is suspended in a routine call, with the globals and       *)
(* locals of the saved state of its Action as its stack, the boundary      *)
(* after the globals and an empty return-address stack; no step modifies a *)
(* saved state; and no step of the running machine changes the stacks or   *)
(* the boundary of a suspended one, which finds them, when the routine     *)
(* returns, as it left them.                                               *)
C26_MachineIsolation ==
    [][/\ \A h \in 1..Len(heap) : Len(heap') >= h /\ heap'[h] = heap[h]
       /\ (resumes' = resumes + 1 /\ program' # NullProgram) =>
            LET saved == heap'[context'.savedState]
            IN /\ stack' = saved.globals \o saved.locals
               /\ globalCount' = Len(saved.globals)
               /\ returnOffsets' = <<>>
               /\ insOff' = saved.insOffset
       /\ Len(outer') = Len(outer) => outer' = outer
       /\ Len(outer') = Len(outer) + 1 =>
            /\ Front(outer') = outer
            /\ Stacks(Last(outer')) = <<stack, returnOffsets, globalCount>>
       /\ Len(outer') = Len(outer) - 1 =>
            /\ outer' = Front(outer)
            /\ <<stack', returnOffsets', globalCount'>> = Stacks(Last(outer))]_vars

(* A machine resumed from an Action is suspended in a routine call, and a  *)
(* second machine resumed from the same Action has changed its own stack.  *)
C26_Witness ==
    /\ outer # <<>> /\ status = "running"
    /\ Last(outer).runner = "docommand"
    /\ Last(outer).context.savedState = context.savedState
    /\ Last(outer).stack # <<>>
    /\ ins # NoIns
    /\ stack # heap[context.savedState].globals \o heap[context.savedState].locals

(* The script's machine runs on after the command a routine has executed   *)
(* for it is complete.                                                     *)
C26_WitnessReturned ==
    /\ outer = <<>> /\ status = "running" /\ runner = "script"
    /\ completed >= 1 /\ stack # <<>>

(* The ids registered for pattern p by the first n addListener calls, in   *)
(* the order of their first registration for p.                            *)
RECURSIVE RegisteredFor(_, _)
RegisteredFor(p, n) ==
    IF n = 0 THEN <<>>
    ELSE LET r == registrations[n]
             before == RegisteredFor(p, n - 1)
         IN IF r.pattern = p /\ \A k \in 1..Len(before) : before[k] # r.id
            THEN Append(before, r.id) ELSE before

(* The number of the latest registration of the listener id for p. *)
LatestNumber(p, id) ==
    LET made == {k \in 1..Len(registrations) :
                    registrations[k].pattern = p /\ registrations[k].id = id}
    IN registrations[CHOOSE k \in made : \A j \in made : j <= k].number

(* The callbacks one message is due: one to each listener registered for   *)
(* exactly its string.                                                     *)
DueFor(msg) ==
    LET ids == RegisteredFor(msg.str, Len(registrations))
    IN [k \in 1..Len(ids) |-> [speakerId |-> msg.speakerId, listenerId |-> ids[k],
                               number |-> LatestNumber(msg.str, ids[k]),
                               volume |-> msg.volume]]

RECURSIVE Due(_)
Due(msgs) == IF msgs = <<>> THEN <<>> ELSE DueFor(Head(msgs)) \o Due(Tail(msgs))

(* C27: MessageBus::update delivers every pending message, in the order    *)
(* the messages were added, to the listeners registered for exactly its    *)
(* string and to no other, in the order of their first registration for    *)
(* that pattern; each callback carries the speaker id and volume of the    *)
(* message and the id and number of the listener for that pattern; the     *)
(* queue is empty afterwards.                                              *)
C27_UpdateDelivers ==
    [][MessageBusUpdate =>
          /\ delivered' = Due(pendingMessages)
          /\ pendingMessages' = <<>>]_vars

(* test_basic: 10 and 11 listen to "foo" with number 1, 11 to "bar" with   *)
(* number 2; "foo" and "bar" are delivered in that order.                  *)
C27_Witness ==
    /\ registrations = <<[id |-> 10, pattern |-> "foo", number |-> 1],
                         [id |-> 11, pattern |-> "foo", number |-> 1],
                         [id |-> 11, pattern |-> "bar", number |-> 2]>>
    /\ delivered = <<[speakerId |-> 20, listenerId |-> 10, number |-> 1, volume |-> "Shout"],
                     [speakerId |-> 20, listenerId |-> 11, number |-> 1, volume |-> "Shout"],
                     [speakerId |-> 21, listenerId |-> 11, number |-> 2, volume |-> "Talk"]>>
    /\ pendingMessages = <<>>

(* A message nobody listens to is delivered to nobody, next to one that is *)
(* delivered.                                                              *)
C27_WitnessUnheard ==
    /\ "bar" \in DOMAIN listeners /\ listeners["bar"] = <<>>
    /\ Len(delivered) = 1

(* The entries of each pattern are the ids registered for it, once each,   *)
(* in the order of their first registration, each with the number of its   *)
(* latest registration.                                                    *)
OneEntryPerListener ==
    /\ \A k \in 1..Len(registrations) : registrations[k].pattern \in DOMAIN listeners
    /\ \A p \in DOMAIN listeners :
          LET ids == RegisteredFor(p, Len(registrations))
          IN /\ Len(listeners[p]) = Len(ids)
             /\ \A k \in 1..Len(ids) :
                   /\ listeners[p][k].id = ids[k]
                   /\ listeners[p][k].number = LatestNumber(p, ids[k])
             /\ \A j, k \in 1..Len(ids) : listeners[p][j].id = listeners[p][k].id => j = k

(* C28: after every call _listeners holds at most one entry per (pattern,  *)
(* listener id), at the position of the first registration and with the    *)
(* number of the latest one; and an update delivers one message at most    *)
(* once to each listener id, with the number of the latest registration.   *)
C28_OneEntryPerListener ==
    [][/\ OneEntryPerListener'
       /\ MessageBusUpdate /\ Len(pendingMessages) = 1 =>
             \A j, k \in 1..Len(delivered') :
                /\ delivered'[j].listenerId = delivered'[k].listenerId => j = k
                /\ delivered'[k].number =
                      LatestNumber(pendingMessages[1].str, delivered'[k].listenerId)]_vars

(* test_update_number: 10 registers for "foo" with number 1, then with     *)
(* number 2; the message is delivered once, with number 2.                 *)
C28_Witness ==
    /\ registrations = <<[id |-> 10, pattern |-> "foo", number |-> 1],
                         [id |-> 10, pattern |-> "foo", number |-> 2]>>
    /\ delivered = <<[speakerId |-> 20, listenerId |-> 10, number |-> 2, volume |-> "Shout"]>>

(* The listener registered again keeps its place before the one            *)
(* registered after it.                                                    *)
C28_WitnessPosition ==
    /\ registrations = <<[id |-> 10, pattern |-> "foo", number |-> 1],
                         [id |-> 11, pattern |-> "foo", number |-> 1],
                         [id |-> 10, pattern |-> "foo", number |-> 2]>>
    /\ delivered = <<[speakerId |-> 20, listenerId |-> 10, number |-> 2, volume |-> "Shout"],
                     [speakerId |-> 20, listenerId |-> 11, number |-> 1, volume |-> "Shout"]>>

(* Attacker and target of b are target and attacker of a. *)
Reversed(a, b) == a.attacker = b.target /\ a.target = b.attacker

(* C29: every round holds one or two actions; a round is created with one  *)
(* action and is no duel; rounds are never removed and their actions never *)
(* change except that addAction appends a second action to a round that is *)
(* not Finished, holds exactly one action, and whose action is the reverse *)
(* of the new one, and the round is then a duel.                           *)
C29_RoundSize ==
    [][/\ Len(rounds') >= Len(rounds)
       /\ \A r \in 1..Len(rounds') :
             /\ Len(rounds'[r].actions) \in {1, 2}
             /\ rounds'[r].duel = (Len(rounds'[r].actions) = 2)
             /\ r > Len(rounds) => Len(rounds'[r].actions) = 1 /\ rounds'[r].state = "Pending"
             /\ r <= Len(rounds) =>
                   \/ rounds'[r].actions = rounds[r].actions
                   \/ /\ rounds[r].state # "Finished"
                      /\ Len(rounds[r].actions) = 1
                      /\ Len(rounds'[r].actions) = 2
                      /\ rounds'[r].actions[1] = rounds[r].actions[1]
                      /\ Reversed(rounds[r].actions[1], rounds'[r].actions[2])
                      /\ rounds'[r].duel]_vars

(* A duel of 10 and 11, and the second attack of 11 on 10 in a round of    *)
(* its own.                                                                *)
C29_Witness ==
    /\ Len(rounds) >= 2
    /\ Len(rounds[1].actions) = 2 /\ rounds[1].duel
    /\ rounds[1].actions[1].attacker = 10 /\ rounds[1].actions[2].attacker = 11
    /\ \E r \in 2..Len(rounds) :
          /\ rounds[r].actions[1].attacker = 11 /\ rounds[r].actions[1].target = 10
          /\ Len(rounds[r].actions) = 1

(* The first attack has Finished alone; the answer to it starts a new      *)
(* round.                                                                  *)
C29_WitnessFinished ==
    /\ Len(rounds) >= 2
    /\ rounds[1].state = "Finished" /\ Len(rounds[1].actions) = 1
    /\ Reversed(rounds[1].actions[1], rounds[2].actions[1])

(* The elements a set holds. *)
Elements(s) == {s.begin[k] : k \in 1..s.size}

(* C30: insert(value) of an absent value adds it and returns an iterator   *)
(* to the new element with inserted = true; insert of a value present      *)
(* leaves the set unchanged and returns an iterator to the element equal   *)
(* to value with inserted = false; after every insert and erase the set    *)
(* holds no duplicate.                                                     *)
C30_InsertResult ==
    [][/\ Cardinality(Elements(set')) = set'.size
       /\ result'.call = "insert" =>
             LET value == result'.value
                 first == result'.first
             IN /\ first \in 1..set'.size /\ set'.begin[first] = value
                /\ IF value \in Elements(set)
                   THEN /\ ~result'.second
                        /\ SubSeq(set'.begin, 1, set'.size) = SubSeq(set.begin, 1, set.size)
                   ELSE /\ result'.second
                        /\ Elements(set') = Elements(set) \cup {value}]_vars

(* The position p brought into the buffer. *)
Clamped(p) == IF p < 0 THEN 0 ELSE IF p > Len(data) THEN Len(data) ELSE p

(* C31: after every call the cursor lies between 0 and the length of the   *)
(* buffer; a seek ends at the position asked for, clamped to 0 when it     *)
(* lies before the beginning and to the length when it lies past the end.  *)
C31_CursorInBuffer ==
    [][/\ cur' \in 0..Len(data')
       /\ \A offset \in -(MaxText + 1)..(MaxText + 1) :
             /\ seekCur(offset) => cur' = Clamped(cur + offset)
             /\ seekSet(offset) => cur' = Clamped(offset)
             /\ seekEnd(offset) => cur' = Clamped(Len(data) + offset)]_vars

(* A seek has taken the cursor to the beginning of a full buffer. *)
C31_Witness == Len(data) = MaxText /\ cur = 0 /\ ~aborted

(* The instruction i pops more operands than the stack stk holds, or its   *)
(* encoded offsets address a slot outside stk (gc is the boundary).        *)
NeedsMissingSlot(stk, gc, i) ==
    LET n == Len(stk)
        count == i.size \div 4
    IN CASE i.type \in {"JZ", "JNZ", "NOTI", "RESTOREBP"} -> n < 1
         [] i.type \in BinaryOps -> n < 2
         [] i.type = "CPDOWNSP" ->
                count > 0 /\ (count > n \/ n + CDiv(i.stackOffset, 4) < 0
                              \/ n + CDiv(i.stackOffset, 4) + count > n)
         [] i.type = "STORE_STATE" ->
                \/ count > 0 /\ (gc - count < 0 \/ gc > n)
                \/ i.sizeLocals \div 4 > n
         [] OTHER -> FALSE

(* C32: no handler touches a slot outside the stack, and a step whose      *)
(* instruction pops more operands than the stack holds, or whose offsets   *)
(* address a slot outside the stack, ends the run with the failure return. *)
C32_StackAccessSafety ==
    [][Stepping =>
          /\ halt' # "ub"
          /\ NeedsMissingSlot(stack, globalCount, ins') =>
                /\ status' = "done"
                /\ halt' = "error"
                /\ retval' = kFailure]_vars

(* The stack stk after its top count slots have been written over the      *)
(* count slots from index dst on (0-based), in the same order.             *)
CopiedDown(stk, dst, count) ==
    [k \in 1..Len(stk) |->
        IF dst < k /\ k <= dst + count THEN stk[Len(stk) - count + (k - dst)] ELSE stk[k]]

(* The count slots from index dst on lie inside a stack of n slots.        *)
TargetInRange(n, dst, count) == count <= n /\ 0 <= dst /\ dst + count <= n

(* C33: CPDOWNSP(size, stackOffset) on a stack of n slots writes the       *)
(* values of the top N = size/4 slots, in their order, over the slots from *)
(* n + stackOffset/4 on, and CPDOWNBP over the slots from boundary +       *)
(* stackOffset/4 on; every other slot, the boundary and the return         *)
(* addresses stay as they are.  Stated for target ranges inside the stack. *)
C33_CopyDown ==
    [][(Stepping /\ ins'.type \in {"CPDOWNSP", "CPDOWNBP"}) =>
          LET count == ins'.size \div 4
              base == IF ins'.type = "CPDOWNSP" THEN Len(stack) ELSE globalCount
              dst == base + CDiv(ins'.stackOffset, 4)
          IN TargetInRange(Len(stack), dst, count) =>
                /\ status' = "running"
                /\ stack' = CopiedDown(stack, dst, count)
                /\ globalCount' = globalCount
                /\ returnOffsets' = returnOffsets]_vars

(* CPDOWNBP of one slot to the slot below a boundary that is not the top:  *)
(* the first slot has taken the value of the fourth.                       *)
C33_Witness ==
    /\ status = "running"
    /\ ins = InsCopy("CPDOWNBP", 45, 4, -4)
    /\ globalCount = 1
    /\ Len(stack) = 4
    /\ stack[1] = ofInt(1)
    /\ code[3][13] = InsCONSTF(13, Float(1))

(* CPDOWNSP of two slots over the two slots below them, in order.          *)
C33_WitnessPair ==
    /\ status = "running"
    /\ ins = InsCopy("CPDOWNSP", 45, 8, -16)
    /\ Len(stack) = 4
    /\ stack[1] = ofInt(0) /\ stack[2] = ofInt(1)
    /\ stack[3] = ofInt(0) /\ stack[4] = ofInt(1)
    /\ code[3][13] = InsCONSTI(13, 1)

(* C34: INCISP and DECISP replace the slot at index size + stackOffset/4,  *)
(* INCIBP and DECIBP the slot at index boundary + stackOffset/4, by the    *)
(* Int one greater or one smaller; the size of the stack, every other      *)
(* slot, the boundary and the return addresses stay as they are.  Stated   *)
(* for an addressed slot that is inside the stack and holds an Int.        *)
C34_InPlaceIncrement ==
    [][(Stepping /\ ins'.type \in {"INCISP", "DECISP", "INCIBP", "DECIBP"}) =>
          LET base == IF ins'.type \in {"INCISP", "DECISP"} THEN Len(stack) ELSE globalCount
              idx == base + CDiv(ins'.stackOffset, 4)
              d == IF ins'.type \in {"INCISP", "INCIBP"} THEN 1 ELSE -1
          IN (0 <= idx /\ idx < Len(stack) /\ stack[idx + 1].type = "Int") =>
                /\ status' = "running"
                /\ Len(stack') = Len(stack)
                /\ stack'[idx + 1] = [type |-> "Int", v |-> stack[idx + 1].v + d]
                /\ \A k \in 1..Len(stack) : k # idx + 1 => stack'[k] = stack[k]
                /\ globalCount' = globalCount
                /\ returnOffsets' = returnOffsets]_vars

(* INCIBP has made the Int 1 below a boundary that is not the top an Int 2 *)
(* and left the three slots above it alone.                                *)
C34_Witness ==
    /\ status = "running"
    /\ ins = Ins("INCIBP", 45, 0, -4, 0, 0, 0, 0, 0)
    /\ globalCount = 1
    /\ stack = <<ofInt(2), ofInt(1), ofInt(0), ofInt(1)>>

(* DECISP has made the Int 0 on top an Int -1.                             *)
C34_WitnessDown ==
    /\ status = "running"
    /\ ins = Ins("DECISP", 45, 0, -4, 0, 0, 0, 0, 0)
    /\ Len(stack) = 2
    /\ stack[2] = ofInt(-1)

(* C35: when SAVEBP is followed by code that leaves the stack as it was    *)
(* and then by RESTOREBP, which pops the int SAVEBP pushed, the boundary   *)
(* after RESTOREBP is the boundary that was in force before the SAVEBP:    *)
(* for RESTOREBP directly after SAVEBP, and for the programs with SAVEBP   *)
(* at 23, two NOP and RESTOREBP at 45, which start with the boundary 0.    *)
C35_BasePointerNesting ==
    [][/\ (Stepping /\ ins'.type = "SAVEBP") =>
             executeRESTOREBP(executeSAVEBP(World, ins'), ins').globalCount = globalCount
       /\ (/\ Stepping /\ ins'.type = "RESTOREBP"
           /\ savedState = DefaultState /\ context.savedState = nullptr
           /\ code[program][23].type = "SAVEBP"
           /\ code[program][29].type = "NOP"
           /\ code[program][39].type = "NOP") =>
             globalCount' = 0]_vars

(* The return addresses the JSR at 13 and at 29 of program 6 push.         *)
CapturedReturns == {NaturalSuccessor(13), NaturalSuccessor(29)}

(* The machine running is one DoCommandAction::execute has constructed     *)
(* from a saved state of program 6.                                        *)
Resumed == runner = "docommand" /\ program = 6 /\ status = "running"

(* C36: a machine resumed from a saved state starts with no return address *)
(* whatever the machine that executed STORE_STATE held; its RETN outside a *)
(* JSR of its own ends the run normally, and it never holds or jumps to a  *)
(* return address the capturing machine pushed.                            *)
C36_ResumeWithoutReturns ==
    [][/\ (resumes' = resumes + 1 /\ status' = "running") => returnOffsets' = <<>>
       /\ (Resumed /\ Stepping /\ ins'.type = "RETN" /\ returnOffsets = <<>>) =>
             /\ insOff' = ProgramLength(program)
             /\ status' = "running"
       /\ (Resumed /\ ~Stepping) => (status' = "done" /\ halt' = "normal")
       /\ Resumed' =>
             /\ insOff' \notin CapturedReturns
             /\ \A k \in 1..Len(returnOffsets') : returnOffsets'[k] \notin CapturedReturns]_vars

(* The command deferred inside two subroutine calls has run and its RETN   *)
(* at 61 has ended the run normally.                                       *)
C36_Witness ==
    /\ runner = "docommand" /\ program = 6
    /\ status = "done" /\ halt = "normal"
    /\ ins = InsOp("RETN", 61)
    /\ code[6][13].type = "JSR" /\ code[6][29].type = "JSR"

(* The capturing machine has ended with two return addresses left, and the *)
(* resumed machine is running its own subroutine call.                     *)
C36_WitnessOwnCall ==
    /\ Resumed
    /\ returnOffsets = <<71>>
    /\ code[6][13].type = "JSR" /\ code[6][29].type = "JSR"
    /\ code[6][77].type = "JMP"

(* The position of a round state in the order of CombatRound::State.       *)
Rank(state) ==
    CASE state = "Pending" -> 0 [] state = "FirstAction" -> 1
      [] state = "SecondAction" -> 2 [] state = "Finished" -> 3

(* The number of calls of finishRound recorded for the round r.            *)
FinishedTimes(calls, r) == Cardinality({k \in 1..Len(calls) : calls[k] = r})

(* C37: in every step a round keeps its state or moves to the next one of  *)
(* Pending, FirstAction, SecondAction, Finished; a Finished round stays    *)
(* Finished; finishRound runs for a round in the step that takes it into   *)
(* Finished and in no other, so once for a Finished round and never for    *)
(* any other.                                                              *)
C37_RoundProgression ==
    [][\A r \in 1..Len(rounds) :
          /\ r <= Len(rounds')
          /\ Rank(rounds'[r].state) - Rank(rounds[r].state) \in {0, 1}
          /\ FinishedTimes(finishes', r) - FinishedTimes(finishes, r) =
                (IF rounds[r].state # "Finished" /\ rounds'[r].state = "Finished" THEN 1 ELSE 0)
          /\ FinishedTimes(finishes', r) = (IF rounds'[r].state = "Finished" THEN 1 ELSE 0)]_vars

(* Two rounds have finished, the older one first, and both have been       *)
(* updated again since.                                                    *)
C37_Witness ==
    /\ Len(rounds) = 2
    /\ finishes = <<1, 2>>
    /\ rounds[1].state = "Finished" /\ rounds[2].state = "Finished"
    /\ rounds[1].time > rounds[2].time
    /\ rounds[2].time > 2 * kRoundDuration

(* The position of a schedule state in the order of AttackSchedule::State. *)
ScheduleRank(state) ==
    CASE state = "WaitAttack" -> 0 [] state = "Attack" -> 1 [] state = "WaitDamage" -> 2
      [] state = "Damage" -> 3 [] state = "WaitFinish" -> 4 [] state = "Finish" -> 5

(* The action is the i-th action of the round r of rs.                     *)
PlacedAt(rs, action, r, i) ==
    /\ r \in 1..Len(rs)
    /\ i \in 1..Len(rs[r].actions)
    /\ rs[r].actions[i].action = action

(* C38: the states a schedule returns follow the order WaitAttack, Attack, *)
(* WaitDamage, Damage, WaitFinish, Finish, one state at a time and never   *)
(* back; Attack and Damage are returned by one call each, Damage after     *)
(* Attack; Attack is returned only while the round of the action is in     *)
(* FirstAction for its first action and in SecondAction for its second,    *)
(* and Finish only when that round is Finished.                            *)
C38_ScheduleOrder ==
    [][\A k \in 1..Len(attacks) :
          LET old == attacks[k]
              new == attacks'[k]
          IN /\ ScheduleRank(new.schedule.state) - ScheduleRank(old.schedule.state) \in {0, 1}
             /\ new.attacked = (IF ScheduleRank(new.schedule.state) >= 1 THEN 1 ELSE 0)
             /\ new.damaged = (IF ScheduleRank(new.schedule.state) >= 3 THEN 1 ELSE 0)
             /\ new.attacked > old.attacked =>
                   \E r \in 1..Len(rounds'), i \in 1..2 :
                      /\ PlacedAt(rounds', new.action, r, i)
                      /\ rounds'[r].state = (IF i = 1 THEN "FirstAction" ELSE "SecondAction")
             /\ (new.schedule.state = "Finish" /\ old.schedule.state # "Finish") =>
                   /\ new.completed
                   /\ \E r \in 1..Len(rounds'), i \in 1..2 :
                         /\ PlacedAt(rounds', new.action, r, i)
                         /\ rounds'[r].state = "Finished"]_vars

(* The attack of 11 on 10 has been the second action of the round of the   *)
(* attack of 10 on 11 and has gone through its schedule.                   *)
C38_Witness ==
    /\ Len(rounds) = 1
    /\ PlacedAt(rounds, [id |-> 2, target |-> 10], 1, 2)
    /\ \E k \in 1..Len(attacks) :
          /\ attacks[k].action = [id |-> 2, target |-> 10]
          /\ attacks[k].schedule.state = "Finish"
          /\ attacks[k].attacked = 1 /\ attacks[k].damaged = 1
          /\ attacks[k].completed

(* The attack actions creatures are given.                                 *)
AttackActions == {[id |-> 1, target |-> 11], [id |-> 2, target |-> 10]}

(* A creature has been given the action a.                                 *)
Given(a) == \E k \in 1..Len(attacks) : attacks[k].action = a

(* The schedule of the action a has returned Attack, then Finish, and the  *)
(* action is completed.                                                    *)
Done(a) ==
    \E k \in 1..Len(attacks) :
       /\ attacks[k].action = a
       /\ attacks[k].attacked = 1
       /\ attacks[k].schedule.state = "Finish"
       /\ attacks[k].completed

(* C39 as stated: when frame follows frame, each executing the action and  *)
(* updating the rounds once with a positive time step, in either order     *)
(* within the frame, every attack action a creature has been given, the    *)
(* first of its round or the second of a duel, attacks and is completed:   *)
(* from some frame on no action that has been given is left unfinished.    *)
C39_AnyOrder == <>[](\A a \in AttackActions : Given(a) => Done(a))

(* C39: the same for frames that all make their two calls in the same      *)
(* order, the one or the other: from some frame on no action that has been *)
(* given is left unfinished, unless two frames have differed in their      *)
(* order.                                                                  *)
C39_AttackLiveness ==
    <>[](\A a \in AttackActions : Given(a) => (Done(a) \/ todo.order = "mixed"))

(* The attack of 11 on 10, given after the round of the attack of 10 on 11 *)
(* had finished, has had a round of its own, in frames of the order of     *)
(* Game::update, and both are completed.                                   *)
C39_WitnessOwnRound ==
    /\ todo.order = "module"
    /\ Len(rounds) = 2
    /\ \A a \in AttackActions : Done(a)

(* In frames that update the rounds before they execute the actions, the   *)
(* attack of 11 on 10 has joined the round of the attack of 10 on 11 as    *)
(* its second action, and both are completed.                              *)
C39_Witness ==
    /\ todo.order = "combat"
    /\ Len(rounds) = 1
    /\ PlacedAt(rounds, [id |-> 2, target |-> 10], 1, 2)
    /\ \A a \in AttackActions : Done(a)


(* The callbacks due under a callback that answers: those of the messages  *)
(* that were pending, then those of the answers, in the order the answers  *)
(* were given.                                                             *)
DueReplying(replier) ==
    Due(pendingMessages) \o Due(addedBy(replier, Due(pendingMessages)))

(* C40: when update returns the pending queue is empty, and an update of   *)
(* an empty queue makes no callback; the listeners registered before an    *)
(* update are registered after it, unchanged; and a message added by a     *)
(* callback while update is running is delivered within that same update,  *)
(* once to each of its listeners, after every message queued before it.    *)
C40_ExactlyOnce ==
    [][\A replier \in {10, 11} :
          MessageBusUpdate \/ MessageBusUpdateReplying(replier) =>
             /\ pendingMessages' = <<>>
             /\ pendingMessages = <<>> => delivered' = <<>>
             /\ \A q \in DOMAIN listeners :
                   q \in DOMAIN listeners' /\ listeners'[q] = listeners[q]
             /\ MessageBusUpdateReplying(replier) => delivered' = DueReplying(replier)]_vars

(* "foo" of 20 and "bar" of 21 were pending; 10 answered "foo" with a      *)
(* "bar" of its own, which 11 heard in the same update after the "bar" of  *)
(* 21.                                                                     *)
C40_Witness ==
    /\ registrations = <<[id |-> 10, pattern |-> "foo", number |-> 1],
                         [id |-> 11, pattern |-> "foo", number |-> 1],
                         [id |-> 11, pattern |-> "bar", number |-> 2]>>
    /\ delivered = <<[speakerId |-> 20, listenerId |-> 10, number |-> 1, volume |-> "Shout"],
                     [speakerId |-> 20, listenerId |-> 11, number |-> 1, volume |-> "Shout"],
                     [speakerId |-> 21, listenerId |-> 11, number |-> 2, volume |-> "Talk"],
                     [speakerId |-> 10, listenerId |-> 11, number |-> 2, volume |-> "Talk"]>>
    /\ pendingMessages = <<>>

(* The answer is to a listener of "bar" that nobody has registered: it is  *)
(* taken from the queue and heard by nobody.                               *)
C40_WitnessUnheard ==
    /\ \A k \in 1..Len(registrations) : registrations[k].pattern = "foo"
    /\ Len(delivered) = 1 /\ delivered[1].number = 1
    /\ "bar" \in DOMAIN listeners /\ listeners["bar"] = <<>>
    /\ pendingMessages = <<>>

====
